---- MODULE Spec2Model ----
(***************************************************************************)
(* The SFTP v3 client core of sftp-ws (lib/sftp-client.ts): the request    *)
(* multiplexer of SftpClientCore (getRequest, execute, _init, _process,    *)
(* end, failRequests, the response parsers) and the channel binding of     *)
(* SftpClient (_bind, end).                                                *)
(*                                                                         *)
(* JavaScript runs every handler to completion, so each action is one      *)
(* whole handler: an API call, one tick of process.nextTick, one "message" *)
(* or "close" notification of the channel.  The handlers are written as    *)
(* operators over a record of the object fields, because they call each    *)
(* other and the caller's callbacks re-entrantly.                          *)
(***************************************************************************)
EXTENDS Integers, Sequences, FiniteSets, TLC

\* ------------------------------------------------------------- bounds
\* width of the request id counter (32 in the program)
IdBits == 3
\* API calls (bind and operations) made in one run
MaxCalls == 3
\* frames the server delivers in one run
MaxMessages == 2
\* API calls made on the long-lived session
MaxWrapCalls == 10
\* channel objects the embedding application has at hand
MaxChannels == 1
\* extension pairs in the server's VERSION frame
MaxAdverts == 2
\* the largest number of bytes a read asks for
MaxLength == 2
\* operations called on the session that reads
MaxReads == 1
\* frames the server delivers to the session that reads
MaxReadReplies == 7
\* operations called with arguments of every kind
MaxArgCalls == 1
\* the largest status code handed to createError
MaxStatus == 12
\* width of a 32-bit field of a packet (a 64-bit field is twice as wide)
WordBits == 5
\* extended pairs in an attribute block the server sends
MaxPairs == 1

VARIABLES
    host,           \* SftpClientCore._host: NoHost or the bound channel
    id,             \* SftpClientCore._id: Null or the next request id
    requests,       \* SftpClientCore._requests: key -> parked continuation
    ready,          \* SftpClientCore._ready
    features,       \* SftpClientCore._features (the set of its keys)
    extensions,     \* SftpClientCore._extensions: name -> value
    bytesSent,      \* SftpClientCore._bytesSent
    bytesReceived,  \* SftpClientCore._bytesReceived
    bound,          \* SftpClient._bound
    ticks,          \* callbacks queued with process.nextTick
    wire,           \* frames handed to IChannel.send, in order
    closeCalls,     \* IChannel.close(code) calls, in order
    listening,      \* channels whose "message"/"close" events are subscribed
    closeSeen,      \* channels whose "close" notification has been handled
    events,         \* events emitted by SftpClient: "ready", "error", "close"
    kind,           \* per API call: which operation it was
    given,          \* per API call: the arguments it was called with
    cbLog,          \* per API call: the results its callback was invoked with
    fate,           \* per API call: what became of its continuation
    nMessages,      \* frames delivered so far
    endCalled,      \* whether the application has called SftpClient.end()
    endMark,        \* NoMark, or <<calls, frames>> counted when end() first
                    \* detached a channel
    built,          \* the ids getRequest has given to requests, in order
    reaction,       \* what the application's callbacks do when invoked
    inline,         \* whether the channel delivers a reply inside send()
    advert,         \* the extension pairs the server advertises in VERSION
    input,          \* the value handed to a function of the codec
    output          \* what the codec's functions have returned, in order

vars == <<host, id, requests, ready, features, extensions, bytesSent, bytesReceived, bound,
          ticks, wire, closeCalls, listening, closeSeen, events, kind, given, cbLog,
          fate, nMessages, endCalled, endMark, built, reaction, inline, advert,
          input, output>>

\* the variables of the session and of its environment
session == <<host, id, requests, ready, features, extensions, bytesSent, bytesReceived,
             bound, ticks, wire, closeCalls, listening, closeSeen, events, kind, given,
             cbLog, fate, nMessages, endCalled, endMark, built, reaction, inline, advert>>

\* ------------------------------------------------------------- values
Modulus == 2 ^ IdBits
\* the values a request id can take once it is a number (see ToInt32)
IdValues == (0 - Modulus \div 2) .. (Modulus \div 2 - 1)
\* JavaScript null, as the value of _id and as a key of _requests
Null == Modulus
NoHost == 0
Channels == 1 .. MaxChannels
NoMark == <<>>

\* SftpStatusCode (sftp-enums.ts)
SftpStatusCode ==
    [OK |-> 0, EOF |-> 1, NO_SUCH_FILE |-> 2, PERMISSION_DENIED |-> 3,
     FAILURE |-> 4, BAD_MESSAGE |-> 5, NO_CONNECTION |-> 6,
     CONNECTION_LOST |-> 7, OP_UNSUPPORTED |-> 8]

\* x & 0xFFFFFFFF: JavaScript's bitwise operators yield a SIGNED integer of
\* the operand width (ToInt32), here IdBits wide
ToInt32(n) ==
    LET m == n % Modulus
    IN  IF m >= Modulus \div 2 THEN m - Modulus ELSE m

\* null + 1 is 1 in JavaScript: null converts to 0 in arithmetic
ToNumber(v) == IF v = Null THEN 0 ELSE v

\* an array index of a JavaScript array: a non-negative integer key.  The
\* key "null" and negative keys are ordinary properties, which
\* Array.prototype.forEach does not visit.
IsArrayIndex(k) == k # Null /\ k >= 0

NoError == [code |-> "null", errno |-> 0, nativeCode |-> 0]

\* a createError in which the second BAD_MESSAGE case of the switch is the
\* one that applies
createError_lastCaseWins(nativeCode) ==
    CASE nativeCode = SftpStatusCode.EOF ->
            [code |-> "EOF", errno |-> 1, nativeCode |-> nativeCode]
      [] nativeCode = SftpStatusCode.NO_SUCH_FILE ->
            [code |-> "ENOENT", errno |-> 34, nativeCode |-> nativeCode]
      [] nativeCode = SftpStatusCode.PERMISSION_DENIED ->
            [code |-> "EACCES", errno |-> 3, nativeCode |-> nativeCode]
      [] nativeCode \in {SftpStatusCode.OK, SftpStatusCode.FAILURE} ->
            [code |-> "EFAILURE", errno |-> 0 - 2, nativeCode |-> nativeCode]
      [] nativeCode = SftpStatusCode.NO_CONNECTION ->
            [code |-> "ENOTCONN", errno |-> 31, nativeCode |-> nativeCode]
      [] nativeCode \in {SftpStatusCode.CONNECTION_LOST, SftpStatusCode.BAD_MESSAGE} ->
            [code |-> "ESHUTDOWN", errno |-> 46, nativeCode |-> nativeCode]
      [] nativeCode = SftpStatusCode.OP_UNSUPPORTED ->
            [code |-> "ENOSYS", errno |-> 35, nativeCode |-> nativeCode]
      [] OTHER ->
            [code |-> "UNKNOWN", errno |-> 0 - 1, nativeCode |-> nativeCode]

\* the first case of the switch that names a code applies; BAD_MESSAGE is
\* named a second time further down, in a case that is never reached
createError(nativeCode) ==
    CASE nativeCode = SftpStatusCode.EOF ->
            [code |-> "EOF", errno |-> 1, nativeCode |-> nativeCode]
      [] nativeCode = SftpStatusCode.NO_SUCH_FILE ->
            [code |-> "ENOENT", errno |-> 34, nativeCode |-> nativeCode]
      [] nativeCode = SftpStatusCode.PERMISSION_DENIED ->
            [code |-> "EACCES", errno |-> 3, nativeCode |-> nativeCode]
      [] nativeCode \in {SftpStatusCode.OK, SftpStatusCode.FAILURE,
                         SftpStatusCode.BAD_MESSAGE} ->
            [code |-> "EFAILURE", errno |-> 0 - 2, nativeCode |-> nativeCode]
      [] nativeCode = SftpStatusCode.NO_CONNECTION ->
            [code |-> "ENOTCONN", errno |-> 31, nativeCode |-> nativeCode]
      [] nativeCode = SftpStatusCode.CONNECTION_LOST ->
            [code |-> "ESHUTDOWN", errno |-> 46, nativeCode |-> nativeCode]
      [] nativeCode = SftpStatusCode.OP_UNSUPPORTED ->
            [code |-> "ENOSYS", errno |-> 35, nativeCode |-> nativeCode]
      [] OTHER ->
            [code |-> "UNKNOWN", errno |-> 0 - 1, nativeCode |-> nativeCode]

\* new Error("Protocol violation"): a plain Error, no code, errno, nativeCode
PlainError == [code |-> "Error", errno |-> 0, nativeCode |-> 0 - 1]

\* what a callback invocation is logged as: the error (or NoError), what
\* invoked it, for a response the id of the response frame, and the
\* arguments passed after the error
ResultOf(err, src, rid, value) == [err |-> err, src |-> src, rid |-> rid, value |-> value]

\* callback(err)
Result(err, src, rid) == ResultOf(err, src, rid, <<>>)

\* the arguments after the error, by name: a handle by its owner, a buffer
\* by its length, a list of items by the names, and null and false as
\* themselves
HandleValue(owner) == [handle |-> owner]
AttrsValue == [attrs |-> "attrs"]
DataValue(buffer, bytesRead) == [buffer |-> buffer, bytesRead |-> bytesRead]
NullData == [value |-> "null", bytesRead |-> 0]
ItemsValue(items) == [items |-> items]
FalseValue == [value |-> "false"]
NullValue == [value |-> "null"]

\* ---------------------------------------------------------------- strings
\* a string value of an extension, as its sequence of characters
IndexOf(hay, needle) ==
    LET starts == {i \in 1 .. (Len(hay) - Len(needle) + 1) :
                      SubSeq(hay, i, i + Len(needle) - 1) = needle}
    IN  IF starts = {} THEN 0 - 1
        ELSE (CHOOSE i \in starts : \A j \in starts : i <= j) - 1

\* the string "undefined", which an absent value concatenates as
Undefined == <<"u", "n", "d", "e", "f", "i", "n", "e", "d">>

\* SftpExtensions.contains
contains(values, value) ==
    IndexOf(<<",">> \o values \o <<",">>, <<",">> \o value \o <<",">>) >= 0

\* SftpExtensions.HARDLINK / POSIX_RENAME
HARDLINK == "hardlink@openssh.com"
POSIX_RENAME == "posix-rename@openssh.com"

\* ----------------------------------------------------------------- codec
\* a & b, a | b and a ^ b on non-negative integers
RECURSIVE BitAnd(_, _)
BitAnd(a, b) ==
    IF a = 0 \/ b = 0 THEN 0
    ELSE ((a % 2) * (b % 2)) + 2 * BitAnd(a \div 2, b \div 2)

RECURSIVE BitXor(_, _)
BitXor(a, b) ==
    IF a = 0 THEN b
    ELSE IF b = 0 THEN a
    ELSE ((a + b) % 2) + 2 * BitXor(a \div 2, b \div 2)

BitOr(a, b) == BitAnd(a, b) + BitXor(a, b)

\* a JavaScript value of which the code asks the type: a number or a string
Number(n) == [type |-> "number", number |-> n, string |-> ""]
String(s) == [type |-> "string", number |-> 0, string |-> s]

\* what a function of the codec returns, or the message of the Error it
\* throws
Returned(v) == [exc |-> "", value |-> v]
Thrown(message) == [exc |-> message]

\* SftpOpenFlags (sftp-enums.ts)
SftpOpenFlags ==
    [READ |-> 1, WRITE |-> 2, APPEND |-> 4, CREATE |-> 8, TRUNC |-> 16,
     EXCL |-> 32, ALL |-> 63]

\* a toNumber whose append modes also ask for truncation
toNumber_appendTruncates(flags) ==
    LET F == SftpOpenFlags
        WC == F.WRITE + F.CREATE
    IN  IF flags.type = "number"
        THEN Returned(BitAnd(flags.number, F.ALL))
        ELSE CASE flags.string = "r" -> Returned(F.READ)
               [] flags.string = "r+" -> Returned(F.READ + F.WRITE)
               [] flags.string = "w" -> Returned(WC + F.TRUNC)
               [] flags.string = "w+" -> Returned(WC + F.TRUNC + F.READ)
               [] flags.string \in {"wx", "xw"} -> Returned(WC + F.EXCL)
               [] flags.string \in {"wx+", "xw+"} -> Returned(WC + F.EXCL + F.READ)
               [] flags.string = "a" -> Returned(WC + F.TRUNC + F.APPEND)
               [] flags.string = "a+" -> Returned(WC + F.TRUNC + F.APPEND + F.READ)
               [] flags.string \in {"ax", "xa"} -> Returned(WC + F.APPEND + F.EXCL)
               [] flags.string \in {"ax+", "xa+"} ->
                     Returned(WC + F.APPEND + F.EXCL + F.READ)
               [] OTHER -> Thrown("Invalid flags")

\* SftpFlags.toNumber (the bits of one mode are distinct, so that their
\* bitwise or is their sum)
toNumber(flags) ==
    LET F == SftpOpenFlags
        WC == F.WRITE + F.CREATE
    IN  IF flags.type = "number"
        THEN Returned(BitAnd(flags.number, F.ALL))
        ELSE CASE flags.string = "r" -> Returned(F.READ)
               [] flags.string = "r+" -> Returned(F.READ + F.WRITE)
               [] flags.string = "w" -> Returned(WC + F.TRUNC)
               [] flags.string = "w+" -> Returned(WC + F.TRUNC + F.READ)
               [] flags.string \in {"wx", "xw"} -> Returned(WC + F.EXCL)
               [] flags.string \in {"wx+", "xw+"} -> Returned(WC + F.EXCL + F.READ)
               [] flags.string = "a" -> Returned(WC + F.APPEND)
               [] flags.string = "a+" -> Returned(WC + F.APPEND + F.READ)
               [] flags.string \in {"ax", "xa"} -> Returned(WC + F.APPEND + F.EXCL)
               [] flags.string \in {"ax+", "xa+"} ->
                     Returned(WC + F.APPEND + F.EXCL + F.READ)
               [] OTHER -> Thrown("Invalid flags")

\* a normalization that keeps TRUNC when EXCL is set
normalized_keepsTrunc(flags) ==
    LET F == SftpOpenFlags
        f0 == BitAnd(flags, F.ALL)
        f2 == IF BitAnd(f0, F.TRUNC) # 0
              THEN BitAnd(f0, BitXor(F.ALL, F.APPEND)) ELSE f0
        f3 == IF BitAnd(f2, F.READ + F.WRITE) = 0 THEN BitOr(f2, F.READ) ELSE f2
    IN  IF BitAnd(f3, F.CREATE) = 0
        THEN BitAnd(f3, F.READ + F.WRITE)
        ELSE BitOr(f3, F.WRITE)

\* the assignments of fromNumber to its parameter, up to the switch
normalized(flags) ==
    LET F == SftpOpenFlags
        f0 == BitAnd(flags, F.ALL)
        f1 == IF BitAnd(f0, F.EXCL) # 0
              THEN BitAnd(f0, BitXor(F.ALL, F.TRUNC)) ELSE f0
        f2 == IF BitAnd(f1, F.TRUNC) # 0
              THEN BitAnd(f1, BitXor(F.ALL, F.APPEND)) ELSE f1
        f3 == IF BitAnd(f2, F.READ + F.WRITE) = 0 THEN BitOr(f2, F.READ) ELSE f2
    IN  IF BitAnd(f3, F.CREATE) = 0
        THEN BitAnd(f3, F.READ + F.WRITE)
        ELSE BitOr(f3, F.WRITE)

\* SftpFlags.fromNumber
fromNumber(flags) ==
    LET f == normalized(flags)
    IN  CASE f = 1 -> Returned(<<"r">>)
          [] f \in {2, 3} -> Returned(<<"r+">>)
          [] f = 10 -> Returned(<<"wx", "r+">>)
          [] f = 11 -> Returned(<<"wx+", "r+">>)
          [] f = 14 -> Returned(<<"a">>)
          [] f = 15 -> Returned(<<"a+">>)
          [] f = 26 -> Returned(<<"w">>)
          [] f = 27 -> Returned(<<"w+">>)
          [] f = 42 -> Returned(<<"wx">>)
          [] f = 43 -> Returned(<<"wx+">>)
          [] f = 46 -> Returned(<<"ax">>)
          [] f = 47 -> Returned(<<"ax+">>)
          [] OTHER -> Thrown("Unsupported flags")

\* a 32-bit word holds 0 .. Word - 1, a 64-bit field 0 .. LongWord - 1
Word == 2 ^ WordBits
LongWord == Word * Word

\* the signed reading of n modulo modulus: x | 0 for a word
toInt(n, modulus) ==
    LET u == n % modulus
    IN  IF u >= modulus \div 2 THEN u - modulus ELSE u

\* SftpAttributeFlags; EXTENDED is the highest bit of the flags word
SftpAttributeFlags ==
    [SIZE |-> 1, UIDGID |-> 2, PERMISSIONS |-> 4, ACMODTIME |-> 8, BASIC |-> 15,
     EXTENDED |-> Word \div 2]

\* SftpPacketWriter / SftpPacketReader: a packet is a sequence of words; a
\* 64-bit field is two of them, the high one first; a string is its length
\* word, followed by its bytes (here every string is the empty one)
writeInt32(v) == <<v % Word>>
writeInt64(v) == <<(v % LongWord) \div Word, v % Word>>
readUint32(buf, pos) == buf[pos]
readInt32(buf, pos) == toInt(buf[pos], Word)
readInt64(buf, pos) == toInt(buf[pos] * Word + buf[pos + 1], LongWord)

\* a record with the one field name, or without any
Field(name, v) == name :> v
NoField == [k \in {} |-> 0]

\* SftpAttributes.from(stats): stats is a record of the fields that are not
\* undefined; a Date is known by its seconds
SftpAttributes_from(stats) ==
    LET F == SftpAttributeFlags
        has(f) == f \in DOMAIN stats
        int(f) == IF has(f) THEN toInt(stats[f], Word) ELSE 0
        flags == (IF has("size") THEN F.SIZE ELSE 0)
                 + (IF has("uid") \/ has("gid") THEN F.UIDGID ELSE 0)
                 + (IF has("mode") THEN F.PERMISSIONS ELSE 0)
                 + (IF has("atime") \/ has("mtime") THEN F.ACMODTIME ELSE 0)
    IN  Field("flags", flags)
        @@ (IF has("size") THEN Field("size", int("size")) ELSE NoField)
        @@ (IF has("uid") \/ has("gid")
            THEN Field("uid", int("uid")) @@ Field("gid", int("gid")) ELSE NoField)
        @@ (IF has("mode") THEN Field("mode", int("mode")) ELSE NoField)
        @@ (IF has("atime") THEN Field("atime", stats.atime) ELSE NoField)
        @@ (IF has("mtime") THEN Field("mtime", stats.mtime) ELSE NoField)

\* SftpAttributes.write(response): the words written
SftpAttributes_write(attrs) ==
    LET F == SftpAttributeFlags
        flags == attrs.flags
        on(bit) == BitAnd(flags, bit) # 0
    IN  IF on(F.ACMODTIME) /\ ~({"atime", "mtime"} \subseteq DOMAIN attrs)
        THEN Thrown("TypeError")
        ELSE Returned(
               writeInt32(flags)
               \o (IF on(F.SIZE) THEN writeInt64(attrs.size) ELSE <<>>)
               \o (IF on(F.UIDGID)
                   THEN writeInt32(attrs.uid) \o writeInt32(attrs.gid) ELSE <<>>)
               \o (IF on(F.PERMISSIONS) THEN writeInt32(attrs.mode) ELSE <<>>)
               \o (IF on(F.ACMODTIME)
                   THEN writeInt32(attrs.atime) \o writeInt32(attrs.mtime) ELSE <<>>)
               \o (IF on(F.EXTENDED) THEN writeInt32(0) ELSE <<>>))

\* the reads both copies of the constructor start with: the flags and the
\* basic fields; next is the position after them, and a read beyond the end
\* of the packet fails
readBasic(buf) ==
    LET F == SftpAttributeFlags
        flags == readUint32(buf, 1)
        on(bit) == BitAnd(flags, bit) # 0
        pUid == 2 + (IF on(F.SIZE) THEN 2 ELSE 0)
        pMode == pUid + (IF on(F.UIDGID) THEN 2 ELSE 0)
        pTime == pMode + (IF on(F.PERMISSIONS) THEN 1 ELSE 0)
        next == pTime + (IF on(F.ACMODTIME) THEN 2 ELSE 0)
    IN  IF Len(buf) < 1 \/ Len(buf) < next - 1
        THEN [exc |-> "BAD_MESSAGE"]
        ELSE [exc |-> "", next |-> next,
              attrs |->
                 Field("flags", flags)
                 @@ (IF on(F.SIZE) THEN Field("size", readInt64(buf, 2)) ELSE NoField)
                 @@ (IF on(F.UIDGID)
                     THEN Field("uid", readInt32(buf, pUid))
                          @@ Field("gid", readInt32(buf, pUid + 1))
                     ELSE NoField)
                 @@ (IF on(F.PERMISSIONS)
                     THEN Field("mode", readUint32(buf, pMode)) ELSE NoField)
                 @@ (IF on(F.ACMODTIME)
                     THEN Field("atime", readUint32(buf, pTime))
                          @@ Field("mtime", readUint32(buf, pTime + 1))
                     ELSE NoField)]

\* flags & ~EXTENDED
WithoutExtended(flags) ==
    BitAnd(flags, BitXor(Word - 1, SftpAttributeFlags.EXTENDED))

\* new SftpAttributes(reader) of sftp-misc.ts: the count of the extended
\* pairs is read as a word, and each pair is a name and a string that is
\* skipped
SftpAttributes(buf) ==
    LET b == readBasic(buf)
    IN  IF b.exc # "" THEN Thrown(b.exc)
        ELSE IF BitAnd(b.attrs.flags, SftpAttributeFlags.EXTENDED) = 0
        THEN Returned(b.attrs)
        ELSE IF Len(buf) < b.next THEN Thrown("BAD_MESSAGE")
        ELSE LET count == readInt32(buf, b.next)
             IN  IF count > 0 /\ Len(buf) < b.next + 2 * count
                 THEN Thrown("BAD_MESSAGE")
                 ELSE Returned([b.attrs EXCEPT !.flags = WithoutExtended(@)])

\* new SftpAttributes(request) of the copy in sftp-client.ts: the count is
\* read as a 64-bit field, into this.size, and size times two strings are
\* skipped
SftpAttributesCopy(buf) ==
    LET b == readBasic(buf)
    IN  IF b.exc # "" THEN Thrown(b.exc)
        ELSE IF BitAnd(b.attrs.flags, SftpAttributeFlags.EXTENDED) = 0
        THEN Returned(b.attrs)
        ELSE IF Len(buf) < b.next + 1 THEN Thrown("BAD_MESSAGE")
        ELSE LET size == readInt64(buf, b.next)
             IN  IF size > 0 /\ Len(buf) < b.next + 1 + 2 * size
                 THEN Thrown("BAD_MESSAGE")
                 ELSE Returned(Field("flags", WithoutExtended(b.attrs.flags))
                               @@ Field("size", size) @@ b.attrs)

\* ------------------------------------------------------------- the state
\* the fields of the objects as one record; exc is the exception in flight
\* ("" when none), which ends every handler it reaches
Cur ==
    [host |-> host, id |-> id, requests |-> requests, ready |-> ready,
     features |-> features, extensions |-> extensions,
     bytesSent |-> bytesSent, bytesReceived |-> bytesReceived,
     bound |-> bound, ticks |-> ticks, wire |-> wire,
     closeCalls |-> closeCalls, listening |-> listening,
     closeSeen |-> closeSeen, events |-> events, kind |-> kind, given |-> given,
     cbLog |-> cbLog, fate |-> fate, nMessages |-> nMessages,
     endCalled |-> endCalled, endMark |-> endMark, built |-> built,
     inline |-> inline, exc |-> ""]

Becomes(t) ==
    /\ host' = t.host
    /\ id' = t.id
    /\ requests' = t.requests
    /\ ready' = t.ready
    /\ features' = t.features
    /\ extensions' = t.extensions
    /\ bytesSent' = t.bytesSent
    /\ bytesReceived' = t.bytesReceived
    /\ bound' = t.bound
    /\ ticks' = t.ticks
    /\ wire' = t.wire
    /\ closeCalls' = t.closeCalls
    /\ listening' = t.listening
    /\ closeSeen' = t.closeSeen
    /\ events' = t.events
    /\ kind' = t.kind
    /\ given' = t.given
    /\ cbLog' = t.cbLog
    /\ fate' = t.fate
    /\ nMessages' = t.nMessages
    /\ endCalled' = t.endCalled
    /\ built' = t.built
    /\ endMark' = t.endMark
    /\ UNCHANGED <<reaction, inline, advert, input, output>>

Throw(s, message) == [s EXCEPT !.exc = message]

\* an exception that reached the event loop or the API caller is gone
Caught(s) == [s EXCEPT !.exc = ""]

Emit(s, event) == [s EXCEPT !.events = Append(@, event)]

EmptyTable == [k \in {} |-> 0]

Without(table, key) == [k \in DOMAIN table \ {key} |-> table[k]]

\* the arguments of a call made with valid arguments that the run does not
\* vary
NoArgs == <<>>

\* no value is being converted by the codec
NoInput == [type |-> "undefined"]

\* a new API call: its callback is known by the call's number
NewCall(s, op) ==
    [s EXCEPT !.kind = Append(@, op), !.given = Append(@, NoArgs),
              !.cbLog = Append(@, <<>>), !.fate = Append(@, "new")]

\* packet.length of a request frame: length prefix, type, id or version, and
\* for an operation at least one length-prefixed argument
PacketLength(type) == IF type \in {"INIT", "VERSION"} THEN 9 ELSE 13

\* ------------------------------------------------------- SftpClientCore
\* a getRequest that increments the counter before it stamps the request:
\* the handshake is given id 1 and the first operation id 2
getRequest_stampsAfterIncrement(s, type) ==
    IF type = "INIT"
    THEN IF s.id # Null
         THEN [st |-> Throw(s, "Already initialized"),
               request |-> [type |-> type, id |-> s.id, body |-> <<>>]]
         ELSE [st |-> [s EXCEPT !.id = 1, !.built = Append(@, 1)],
               request |-> [type |-> type, id |-> 1, body |-> <<>>]]
    ELSE LET next == ToInt32(ToNumber(s.id) + 1)
         IN  [st |-> [s EXCEPT !.id = next, !.built = Append(@, next)],
              request |-> [type |-> type, id |-> next, body |-> <<>>]]

\* the request writer: its type, its id, and the fields written after them
\* (body; the paths and handles of an operation are left out)
getRequest(s, type) ==
    LET request == [type |-> type, id |-> s.id, body |-> <<>>]
    IN  IF type = "INIT"
        THEN IF s.id # Null
             THEN [st |-> Throw(s, "Already initialized"), request |-> request]
             ELSE [st |-> [s EXCEPT !.id = 1, !.built = Append(@, request.id)],
                   request |-> request]
        ELSE [st |-> [s EXCEPT !.id = ToInt32(ToNumber(s.id) + 1),
                               !.built = Append(@, request.id)],
              request |-> request]

\* a received frame as SftpPacketReader presents it: type, id (Null for
\* VERSION and INIT, which carry no id), and the fields the parsers read:
\* arg is the version, the status code or the name count; exts the
\* extension pairs of a VERSION frame
Frame(type, rid, arg, exts) == [type |-> type, id |-> rid, arg |-> arg, exts |-> exts]

\* the reply of a server that answers a request frame at once
InlineReply(request) ==
    CASE request.type = "INIT" -> Frame("VERSION", Null, 3, <<>>)
      [] request.type = "OPEN" -> Frame("HANDLE", request.id, 0, <<>>)
      [] request.type = "REALPATH" -> Frame("NAME", request.id, 1, <<>>)
      [] OTHER -> Frame("STATUS", request.id, SftpStatusCode.OK, <<>>)

\* the "message" listener of _bind, run while execute is inside send():
\* _process counts the bytes and looks the reply's id up.  execute has just
\* found no entry under this id and assigns one only after send() returns,
\* so the lookup yields undefined: _process throws "Unknown response ID"
\* and the listener emits "error".
onMessageInSend(s, packet) ==
    LET s1 == [s EXCEPT !.nMessages = @ + 1,
                        !.bytesReceived = @ + PacketLength(packet.type)]
    IN  Emit(Caught(Throw(s1, "Unknown response ID")), "error")

\* this._host.send(packet): the frame is handed to the channel.  A channel
\* that answers inside send() raises its "message" event, with the reply,
\* before send returns, if the event is subscribed; the frame records
\* whether it did.
send(s, request, callback) ==
    LET heard == s.inline /\ s.host \in s.listening \ s.closeSeen
        s1 == [s EXCEPT
                 !.wire = Append(@, [channel |-> s.host, type |-> request.type,
                                     id |-> request.id, call |-> callback,
                                     body |-> request.body, inline |-> heard])]
    IN  IF heard THEN onMessageInSend(s1, InlineReply(request)) ELSE s1

\* an execute without the "Duplicate request" check: the new continuation
\* replaces the one parked under the same id
execute_overwrites(s, request, callback, responseParser, closure) ==
    IF s.host = NoHost
    THEN [s EXCEPT
            !.ticks = Append(@, [callback |-> callback,
                                 error |-> createError(SftpStatusCode.NO_CONNECTION)]),
            !.fate[callback] = "deferred"]
    ELSE [send(s, request, callback) EXCEPT
            !.bytesSent = @ + PacketLength(request.type),
            !.requests = (request.id :>
                             [callback |-> callback,
                              responseParser |-> responseParser,
                              closure |-> closure]) @@ @,
            !.fate[callback] = "parked"]

\* an execute that, without a channel, calls the callback itself instead of
\* queueing it
execute_failsInline(s, request, callback, responseParser, closure) ==
    IF s.host = NoHost
    THEN [s EXCEPT
            !.cbLog[callback] =
               Append(@, Result(createError(SftpStatusCode.NO_CONNECTION), "call", Null)),
            !.fate[callback] = "failed"]
    ELSE IF request.id \in DOMAIN s.requests
    THEN Throw(s, "Duplicate request")
    ELSE [send(s, request, callback) EXCEPT
            !.bytesSent = @ + PacketLength(request.type),
            !.requests = @ @@ (request.id :>
                                 [callback |-> callback,
                                  responseParser |-> responseParser,
                                  closure |-> closure]),
            !.fate[callback] = "parked"]

execute(s, request, callback, responseParser, closure) ==
    IF s.host = NoHost
    THEN [s EXCEPT
            !.ticks = Append(@, [callback |-> callback,
                                 error |-> createError(SftpStatusCode.NO_CONNECTION)]),
            !.fate[callback] = "deferred"]
    ELSE IF request.id \in DOMAIN s.requests
    THEN Throw(s, "Duplicate request")
    ELSE [send(s, request, callback) EXCEPT
            !.bytesSent = @ + PacketLength(request.type),
            !.requests = @ @@ (request.id :>
                                 [callback |-> callback,
                                  responseParser |-> responseParser,
                                  closure |-> closure]),
            !.fate[callback] = "parked"]

_init(s, channel, callback) ==
    IF s.host # NoHost
    THEN Throw(s, "Already bound")
    ELSE LET s1 == [s EXCEPT !.host = channel, !.extensions = EmptyTable]
             g == getRequest(s1, "INIT")
         IN  IF g.st.exc # ""
             THEN g.st
             ELSE execute(g.st, [g.request EXCEPT !.body = <<3>>],
                          callback, "init", channel)

\* the calls a caller's callback makes when it is invoked: nothing, one more
\* operation, or SftpClient.end()
Reactions == {"none", "op", "end"}

RECURSIVE Invoke(_, _, _, _)

\* requests.forEach(request => request.callback(createError(...))): the
\* array indices in ascending order; an exception leaves the loop
RECURSIVE forEach(_, _, _, _, _)
forEach(s, table, keys, code, r) ==
    IF keys = {} \/ s.exc # ""
    THEN s
    ELSE LET k == CHOOSE x \in keys : \A y \in keys : x <= y
             s1 == [s EXCEPT !.fate[table[k].callback] = "failed"]
         IN  forEach(Invoke(s1, table[k].callback,
                            Result(createError(code), "teardown", Null), r),
                     table, keys \ {k}, code, r)

\* a failRequests that empties the table of the requests it invokes only:
\* the entries forEach skips stay
failRequests_keepsSkipped(s, code, r) ==
    LET table == s.requests
        skipped == {k \in DOMAIN table : ~IsArrayIndex(k)}
        s1 == [s EXCEPT
                 !.requests = [k \in skipped |-> table[k]],
                 !.fate = [c \in DOMAIN @ |->
                             IF @[c] = "parked" THEN "dropped" ELSE @[c]]]
    IN  forEach(s1, table, {k \in DOMAIN table : IsArrayIndex(k)}, code, r)

failRequests(s, code, r) ==
    LET table == s.requests
        s1 == [s EXCEPT
                 !.requests = EmptyTable,
                 !.fate = [c \in DOMAIN @ |->
                             IF @[c] = "parked" THEN "dropped" ELSE @[c]]]
    IN  forEach(s1, table, {k \in DOMAIN table : IsArrayIndex(k)}, code, r)

end(s, r) ==
    LET s0 == IF s.endMark = NoMark /\ s.host # NoHost
              THEN [s EXCEPT !.endMark = <<Len(s.kind), Len(s.wire)>>]
              ELSE s
        s1 == IF s0.host # NoHost
              THEN [s0 EXCEPT !.host = NoHost,
                              !.closeCalls = Append(@, <<s0.host, 0>>)]
              ELSE s0
    IN  failRequests(s1, SftpStatusCode.CONNECTION_LOST, r)

\* SftpClient.end
ClientEnd(s, r) ==
    LET t == end(s, r)
    IN  IF t.exc # "" THEN t ELSE Emit(t, "close")

\* SftpPacketType values are numbers; a feature key is a string that
\* command() looks up in _features
SftpPacketTypes == {"OPEN", "REMOVE", "REALPATH", "RENAME"}

\* SftpExtensions.CHECK_FILE_HANDLE / COPY_DATA
CHECK_FILE_HANDLE == "check-file-handle"
COPY_DATA == "copy-data"

\* this._features[key]: _init stores under each feature key the name of the
\* extension that provides it
FeatureExtension(key) ==
    CASE key = "LINK" -> HARDLINK
      [] key = "POSIX_RENAME" -> POSIX_RENAME
      [] key = "CHECK_FILE_HANDLE" -> CHECK_FILE_HANDLE
      [] key = "COPY_DATA" -> COPY_DATA

\* a command that sends the extension of a feature key whether or not the
\* feature map holds the key
command_ignoresFeatures(s, cmd, callback, responseParser) ==
    LET resolved == IF cmd \in SftpPacketTypes THEN cmd
                    ELSE IF cmd = "undefined" THEN cmd
                    ELSE FeatureExtension(cmd)
    IN  IF resolved = "undefined"
        THEN [s EXCEPT
                !.ticks = Append(@, [callback |-> callback,
                                     error |-> createError(SftpStatusCode.OP_UNSUPPORTED)]),
                !.fate[callback] = "deferred"]
        ELSE LET g == getRequest(s, resolved)
             IN  execute(g.st, g.request, callback, responseParser, NoHost)

\* cmd is a packet type, a feature key, or "undefined" (rename leaves its
\* command variable unset for flags it does not support)
command(s, cmd, callback, responseParser) ==
    LET resolved == IF cmd \in SftpPacketTypes THEN cmd
                    ELSE IF cmd \in s.features THEN FeatureExtension(cmd)
                    ELSE "undefined"
    IN  IF resolved = "undefined"
        THEN [s EXCEPT
                !.ticks = Append(@, [callback |-> callback,
                                     error |-> createError(SftpStatusCode.OP_UNSUPPORTED)]),
                !.fate[callback] = "deferred"]
        ELSE LET g == getRequest(s, resolved)
             IN  execute(g.st, g.request, callback, responseParser, NoHost)

\* RenameFlags: 0, OVERWRITE, and any other value
RenameFlags == {"NONE", "OVERWRITE", "OTHER"}

\* a rename that treats every flag value other than OVERWRITE as 0
rename_otherIsPlain(s, flags, callback) ==
    CASE flags = "OVERWRITE" -> command(s, "POSIX_RENAME", callback, "parseStatus")
      [] OTHER -> command(s, "RENAME", callback, "parseStatus")

rename(s, flags, callback) ==
    CASE flags = "OVERWRITE" -> command(s, "POSIX_RENAME", callback, "parseStatus")
      [] flags = "NONE" -> command(s, "RENAME", callback, "parseStatus")
      [] OTHER ->
            command([s EXCEPT
                       !.ticks = Append(@, [callback |-> callback,
                                            error |-> createError(SftpStatusCode.OP_UNSUPPORTED)])],
                    "undefined", callback, "parseStatus")

link(s, callback) == command(s, "LINK", callback, "parseStatus")

\* a handle object is known by the session that issued it: this one or
\* another one ("missing" stands for a null or undefined argument)
Handles == {"this", "other"}

\* a toHandle that does not look at the owner of the handle
toHandle_anyOwner(s, handle) ==
    IF handle = "missing" THEN Throw(s, "Missing handle") ELSE s

toHandle(s, handle) ==
    IF handle = "missing" THEN Throw(s, "Missing handle")
    ELSE IF handle = "this" THEN s
    ELSE Throw(s, "Invalid handle")

fcopy(s, fromHandle, toHandle_, callback) ==
    LET s1 == toHandle(s, fromHandle)
        s2 == IF s1.exc # "" THEN s1 ELSE toHandle(s1, toHandle_)
    IN  IF s2.exc # "" THEN s2
        ELSE LET g == getRequest(s2, COPY_DATA)
             IN  execute(g.st, g.request, callback, "parseStatus", NoHost)

fhash(s, handle, callback) ==
    LET s1 == toHandle(s, handle)
    IN  IF s1.exc # "" THEN s1
        ELSE LET g == getRequest(s1, CHECK_FILE_HANDLE)
             IN  execute(g.st, g.request, callback, "parseHash", NoHost)

\* ------------------------------------------------ argument validation
\* The arguments of a call: callback is "function" or what else was passed;
\* handle is a handle of this session, a handle of another session, or
\* "missing" (null, undefined); buffer is a Buffer of some length, some
\* other object, or null; flags is an open mode string.
Buffer(n) == [isBuffer |-> TRUE, null |-> FALSE, length |-> n]
NullBuffer == [isBuffer |-> FALSE, null |-> TRUE, length |-> 0]
NotBuffer == [isBuffer |-> FALSE, null |-> FALSE, length |-> 0]

\* SftpClientCore._maxWriteBlockLength / _maxReadBlockLength
MaxWriteBlockLength == 32 * 1024
MaxReadBlockLength == 256 * 1024

\* the mode strings SftpFlags.toNumber accepts
OpenModes ==
    {"r", "r+", "w", "w+", "wx", "xw", "wx+", "xw+", "a", "a+", "ax", "xa", "ax+", "xa+"}

\* Each check yields the message of the error it throws, "" when it passes.
checkCallback(callback) ==
    IF callback # "function" THEN "Callback must be a function" ELSE ""

checkBuffer(buffer, offset, length) ==
    IF ~buffer.isBuffer THEN "Invalid buffer"
    ELSE IF offset < 0 THEN "Invalid offset"
    ELSE IF length < 0 THEN "Invalid length"
    ELSE IF offset + length > buffer.length THEN "Offset or length is out of bands"
    ELSE ""

\* (the positions passed here are far below the upper limit, 2^63 - 1)
checkPosition(position) == IF position < 0 THEN "Invalid position" ELSE ""

\* the checks of an operation run in order and the first error is thrown
FirstError(errors) ==
    LET failed == {i \in DOMAIN errors : errors[i] # ""}
    IN  IF failed = {} THEN ""
        ELSE errors[CHOOSE i \in failed : \A j \in failed : i <= j]

\* the request is built, and the id counter advanced, before
\* SftpFlags.toNumber converts the flags
open(s, a, c) ==
    IF checkCallback(a.callback) # ""
    THEN Throw(s, checkCallback(a.callback))
    ELSE LET g == getRequest(s, "OPEN")
         IN  IF a.flags \notin OpenModes
             THEN Throw(g.st, "Invalid flags")
             ELSE execute(g.st, g.request, c, "parseHandle", NoHost)

\* checkCallback, then toHandle
checkHandle(s, a) == <<checkCallback(a.callback), toHandle(s, a.handle).exc>>

close(s, a, c) ==
    LET e == FirstError(checkHandle(s, a))
    IN  IF e # "" THEN Throw(s, e)
        ELSE LET g == getRequest(s, "CLOSE")
             IN  execute(g.st, [g.request EXCEPT !.body = <<a.handle>>],
                         c, "parseStatus", NoHost)

read(s, a, c) ==
    LET e == FirstError(checkHandle(s, a)
                        \o <<IF a.buffer.null THEN ""
                             ELSE checkBuffer(a.buffer, a.offset, a.length),
                             checkPosition(a.position)>>)
        length == IF a.length > MaxReadBlockLength THEN MaxReadBlockLength
                  ELSE a.length
    IN  IF e # "" THEN Throw(s, e)
        ELSE LET g == getRequest(s, "READ")
             IN  execute(g.st,
                         [g.request EXCEPT !.body = <<a.handle, a.position, length>>],
                         c, "parseData",
                         [retries |-> 0, h |-> a.handle, buffer |-> a.buffer,
                          offset |-> a.offset, length |-> length,
                          position |-> a.position])

write(s, a, c) ==
    LET e == FirstError(checkHandle(s, a)
                        \o <<checkBuffer(a.buffer, a.offset, a.length),
                             checkPosition(a.position),
                             IF a.length > MaxWriteBlockLength
                             THEN "Length exceeds maximum allowed data block length"
                             ELSE "">>)
    IN  IF e # "" THEN Throw(s, e)
        ELSE LET g == getRequest(s, "WRITE")
             IN  execute(g.st,
                         [g.request EXCEPT !.body = <<a.handle, a.position, a.length>>],
                         c, "parseStatus", NoHost)

fstat(s, a, c) ==
    LET e == FirstError(checkHandle(s, a))
    IN  IF e # "" THEN Throw(s, e)
        ELSE LET g == getRequest(s, "FSTAT")
             IN  execute(g.st, [g.request EXCEPT !.body = <<a.handle>>],
                         c, "parseAttribs", NoHost)

fsetstat(s, a, c) ==
    LET e == FirstError(checkHandle(s, a))
    IN  IF e # "" THEN Throw(s, e)
        ELSE LET g == getRequest(s, "FSETSTAT")
             IN  execute(g.st, [g.request EXCEPT !.body = <<a.handle>>],
                         c, "parseStatus", NoHost)

readdir(s, a, c) ==
    LET e == FirstError(checkHandle(s, a))
    IN  IF e # "" THEN Throw(s, e)
        ELSE LET g == getRequest(s, "READDIR")
             IN  execute(g.st, [g.request EXCEPT !.body = <<a.handle>>],
                         c, "parseItems", NoHost)

\* fcopy and fhash with the callback and the positions given: checkCallback
\* first, the handles, then the positions, then the request
fcopyChecked(s, a, c) ==
    LET e == FirstError(checkHandle(s, a)
                        \o <<toHandle(s, a.handle2).exc, checkPosition(a.position)>>)
    IN  IF e # "" THEN Throw(s, e) ELSE fcopy(s, a.handle, a.handle2, c)

fhashChecked(s, a, c) ==
    LET e == FirstError(checkHandle(s, a) \o <<checkPosition(a.position)>>)
    IN  IF e # "" THEN Throw(s, e) ELSE fhash(s, a.handle, c)

CheckedOperations ==
    {"open", "close", "read", "write", "fstat", "fsetstat", "readdir", "fcopy", "fhash"}

\* the operations that validate their arguments, as API call number c with
\* arguments a
PerformChecked(s, op, a, c) ==
    CASE op = "open" -> open(s, a, c)
      [] op = "close" -> close(s, a, c)
      [] op = "read" -> read(s, a, c)
      [] op = "write" -> write(s, a, c)
      [] op = "fstat" -> fstat(s, a, c)
      [] op = "fsetstat" -> fsetstat(s, a, c)
      [] op = "readdir" -> readdir(s, a, c)
      [] op = "fcopy" -> fcopyChecked(s, a, c)
      [] op = "fhash" -> fhashChecked(s, a, c)

CheckedOperation(s, op, a) ==
    LET c == Len(s.kind) + 1
        t == PerformChecked([NewCall(s, op) EXCEPT !.given[c] = a], op, a, c)
    IN  IF t.exc # "" THEN [t EXCEPT !.fate[c] = "thrown"] ELSE t

Operations == {"open", "realpath"}

\* an operation with valid arguments, as API call number c
Perform(s, op, c) ==
    CASE op = "open" ->
            LET g == getRequest(s, "OPEN")
            IN  execute(g.st, g.request, c, "parseHandle", NoHost)
      [] op = "unlink" -> command(s, "REMOVE", c, "parseStatus")
      [] op = "realpath" -> command(s, "REALPATH", c, "parsePath")

Operation(s, op) ==
    LET c == Len(s.kind) + 1
        t == Perform(NewCall(s, op), op, c)
    IN  IF t.exc # "" THEN [t EXCEPT !.fate[c] = "thrown"] ELSE t

\* the operations that go through an extension, as API call number c, with
\* the arguments that decide their course
PerformExtended(s, op, c) ==
    CASE op = "link" -> link(s, c)
      [] op = "rename" -> rename(s, "NONE", c)
      [] op = "renameOverwrite" -> rename(s, "OVERWRITE", c)
      [] op = "renameOther" -> rename(s, "OTHER", c)
      [] op = "fcopy" -> fcopy(s, "this", "this", c)
      [] op = "fcopyOther" -> fcopy(s, "this", "other", c)
      [] op = "fhash" -> fhash(s, "this", c)

ExtendedOperation(s, op) ==
    LET c == Len(s.kind) + 1
        t == PerformExtended(NewCall(s, op), op, c)
    IN  IF t.exc # "" THEN [t EXCEPT !.fate[c] = "thrown"] ELSE t

React(s, r) ==
    CASE r = "none" -> s
      [] r = "op" -> IF Len(s.kind) < MaxCalls THEN Operation(s, "unlink") ELSE s
      [] r = "end" -> ClientEnd(s, r)

\* a bind callback that emits 'ready' whatever _init reports
BindCallback_alwaysReady(s, err, r) ==
    IF err # NoError
    THEN LET t == end(s, r)
         IN  IF t.exc # "" THEN t ELSE Emit([t EXCEPT !.bound = FALSE], "ready")
    ELSE Emit(s, "ready")

\* the callback SftpClient._bind hands to _init
BindCallback(s, err, r) ==
    IF err # NoError
    THEN LET t == end(s, r)
         IN  IF t.exc # "" THEN t ELSE [t EXCEPT !.bound = FALSE]
    ELSE Emit(s, "ready")

Invoke(s, callback, result, r) ==
    LET s1 == [s EXCEPT !.cbLog[callback] = Append(@, result)]
    IN  IF s.kind[callback] = "bind"
        THEN BindCallback(s1, result.err, r)
        ELSE React(s1, r)

\* ------------------------------------------------------ response parsers
\* a parser's throw: the continuation was removed by _process and is lost
ProtocolThrow(s, callback, message) ==
    [s EXCEPT !.exc = message, !.fate[callback] = "violated"]

readStatus(response) ==
    IF response.arg = SftpStatusCode.OK THEN NoError ELSE createError(response.arg)

\* a checkResponse that, having reported an error status to the callback,
\* goes on to the type check instead of returning
checkResponse_goesOn(s, response, expectedType, callback, r) ==
    LET s1 == IF response.type = "STATUS" /\ readStatus(response) # NoError
              THEN Invoke(s, callback,
                          Result(readStatus(response), "response", response.id), r)
              ELSE s
    IN  IF s1.exc # ""
        THEN [st |-> s1, ok |-> FALSE]
        ELSE IF response.type # expectedType
        THEN [st |-> ProtocolThrow(s1, callback, "Unexpected packet received"),
              ok |-> FALSE]
        ELSE [st |-> s1, ok |-> TRUE]

\* yields the state and whether the parser goes on
checkResponse(s, response, expectedType, callback, r) ==
    IF response.type = "STATUS" /\ readStatus(response) # NoError
    THEN [st |-> Invoke(s, callback,
                        Result(readStatus(response), "response", response.id), r),
          ok |-> FALSE]
    ELSE IF response.type # expectedType
    THEN [st |-> ProtocolThrow(s, callback, "Unexpected packet received"),
          ok |-> FALSE]
    ELSE [st |-> s, ok |-> TRUE]

parseStatus(s, response, callback, r) ==
    LET chk == checkResponse(s, response, "STATUS", callback, r)
    IN  IF ~chk.ok THEN chk.st
        ELSE Invoke(chk.st, callback, Result(NoError, "response", response.id), r)

\* the handle passed to the callback is owned by this session
parseHandle(s, response, callback, r) ==
    LET chk == checkResponse(s, response, "HANDLE", callback, r)
    IN  IF ~chk.ok THEN chk.st
        ELSE Invoke(chk.st, callback,
                    ResultOf(NoError, "response", response.id, HandleValue("this")), r)

parsePath(s, response, callback, r) ==
    LET chk == checkResponse(s, response, "NAME", callback, r)
    IN  IF ~chk.ok THEN chk.st
        ELSE IF response.arg # 1
        THEN ProtocolThrow(chk.st, callback, "Invalid response")
        ELSE Invoke(chk.st, callback, Result(NoError, "response", response.id), r)

parseAttribs(s, response, callback, r) ==
    LET chk == checkResponse(s, response, "ATTRS", callback, r)
    IN  IF ~chk.ok THEN chk.st
        ELSE Invoke(chk.st, callback,
                    ResultOf(NoError, "response", response.id, AttrsValue), r)

\* createError(FAILURE) with code and errno replaced
EIO == [code |-> "EIO", errno |-> 55, nativeCode |-> SftpStatusCode.FAILURE]

\* a parseData that reports the EOF status as an error, like any other
\* status
parseData_eofIsError(s, response, callback, r, cl) ==
    IF response.type = "STATUS" /\ readStatus(response) # NoError
    THEN Invoke(s, callback,
                ResultOf(readStatus(response), "response", response.id, NullData), r)
    ELSE LET data == response.arg
         IN  IF data > cl.length
             THEN ProtocolThrow(s, callback, "Received too much data")
             ELSE LET length == data
                  IN  IF length = 0
                      THEN IF cl.retries > 4
                           THEN Invoke(s, callback,
                                       ResultOf(EIO, "response", response.id,
                                                NullData), r)
                           ELSE LET g == getRequest(s, "READ")
                                IN  execute(g.st,
                                            [g.request EXCEPT
                                               !.body = <<cl.h, cl.position, length>>],
                                            callback, "parseData",
                                            [cl EXCEPT !.retries = @ + 1,
                                                       !.length = length])
                      ELSE Invoke(s, callback,
                                  ResultOf(NoError, "response", response.id,
                                           DataValue(IF cl.buffer.null THEN length
                                                     ELSE cl.buffer.length,
                                                     length)), r)

\* cl holds the arguments the parser was bound with: retries, h, buffer,
\* offset, length, position.  The frame's arg is the status code or the
\* number of data bytes.  The callback's arguments after the error are the
\* buffer (the data when the caller gave none) and bytesRead.
parseData(s, response, callback, r, cl) ==
    IF response.type = "STATUS" /\ readStatus(response) # NoError
    THEN IF readStatus(response).nativeCode = SftpStatusCode.EOF
         THEN Invoke(s, callback,
                     ResultOf(NoError, "response", response.id, DataValue(0, 0)), r)
         ELSE Invoke(s, callback,
                     ResultOf(readStatus(response), "response", response.id,
                              NullData), r)
    ELSE LET data == response.arg
         IN  IF data > cl.length
             THEN ProtocolThrow(s, callback, "Received too much data")
             ELSE LET length == data
                  IN  IF length = 0
                      THEN IF cl.retries > 4
                           THEN Invoke(s, callback,
                                       ResultOf(EIO, "response", response.id,
                                                NullData), r)
                           ELSE LET g == getRequest(s, "READ")
                                IN  execute(g.st,
                                            [g.request EXCEPT
                                               !.body = <<cl.h, cl.position, length>>],
                                            callback, "parseData",
                                            [cl EXCEPT !.retries = @ + 1,
                                                       !.length = length])
                      ELSE Invoke(s, callback,
                                  ResultOf(NoError, "response", response.id,
                                           DataValue(IF cl.buffer.null THEN length
                                                     ELSE cl.buffer.length,
                                                     length)), r)

\* a parseItems that reports the end of the enumeration as an empty list
parseItems_eofIsEmpty(s, response, callback, r) ==
    IF response.type = "STATUS" /\ readStatus(response) # NoError
    THEN IF readStatus(response).nativeCode = SftpStatusCode.EOF
         THEN Invoke(s, callback,
                     ResultOf(NoError, "response", response.id, ItemsValue(<<>>)), r)
         ELSE Invoke(s, callback,
                     ResultOf(readStatus(response), "response", response.id,
                              NullValue), r)
    ELSE IF response.type # "NAME"
    THEN ProtocolThrow(s, callback, "Unexpected packet received")
    ELSE Invoke(s, callback,
                ResultOf(NoError, "response", response.id,
                         ItemsValue(SubSeq(response.exts, 1, response.arg))), r)

\* the frame's arg is the status code or the count, exts the entries; the
\* callback's argument after the error is false or the list of items
parseItems(s, response, callback, r) ==
    IF response.type = "STATUS" /\ readStatus(response) # NoError
    THEN IF readStatus(response).nativeCode = SftpStatusCode.EOF
         THEN Invoke(s, callback,
                     ResultOf(NoError, "response", response.id, FalseValue), r)
         ELSE Invoke(s, callback,
                     ResultOf(readStatus(response), "response", response.id,
                              NullValue), r)
    ELSE IF response.type # "NAME"
    THEN ProtocolThrow(s, callback, "Unexpected packet received")
    ELSE Invoke(s, callback,
                ResultOf(NoError, "response", response.id,
                         ItemsValue(SubSeq(response.exts, 1, response.arg))), r)

parseHash(s, response, callback, r) ==
    LET chk == checkResponse(s, response, "EXTENDED_REPLY", callback, r)
    IN  IF ~chk.ok THEN chk.st
        ELSE Invoke(chk.st, callback, Result(NoError, "response", response.id), r)

\* the loop over the extension pairs of the VERSION frame: the value stored
\* under a name is the value of the pair (the comma-joined val is not stored)
RECURSIVE readExtensions(_, _)
readExtensions(table, exts) ==
    IF exts = <<>> THEN table
    ELSE LET e == Head(exts)
         IN  readExtensions([k \in DOMAIN table \cup {e.name} |->
                                IF k = e.name THEN e.value ELSE table[k]],
                            Tail(exts))

Extension(table, name) == IF name \in DOMAIN table THEN table[name] ELSE Undefined

\* a response parser of _init that accepts any protocol version
initParser_anyVersion(s, response, callback, r, channel) ==
    IF response.type # "VERSION"
    THEN Invoke([s EXCEPT !.closeCalls = Append(@, <<channel, 3002>>)],
                callback, Result(PlainError, "response", response.id), r)
    ELSE LET ext == readExtensions(s.extensions, response.exts)
             feat == (IF contains(Extension(ext, HARDLINK), <<"1">>)
                      THEN {"LINK"} ELSE {})
                     \cup (IF contains(Extension(ext, POSIX_RENAME), <<"1">>)
                           THEN {"POSIX_RENAME"} ELSE {})
                     \cup {"CHECK_FILE_HANDLE", "COPY_DATA"}
         IN  Invoke([s EXCEPT !.extensions = ext,
                              !.features = @ \cup feat,
                              !.ready = TRUE],
                    callback, Result(NoError, "response", response.id), r)

\* the response parser _init parks; channel is the host it was called with
initParser(s, response, callback, r, channel) ==
    IF response.type # "VERSION"
    THEN Invoke([s EXCEPT !.closeCalls = Append(@, <<channel, 3002>>)],
                callback, Result(PlainError, "response", response.id), r)
    ELSE IF response.arg # 3
    THEN Invoke([s EXCEPT !.closeCalls = Append(@, <<channel, 3002>>)],
                callback,
                Result(createError(SftpStatusCode.BAD_MESSAGE), "response", response.id),
                r)
    ELSE LET ext == readExtensions(s.extensions, response.exts)
             feat == (IF contains(Extension(ext, HARDLINK), <<"1">>)
                      THEN {"LINK"} ELSE {})
                     \cup (IF contains(Extension(ext, POSIX_RENAME), <<"1">>)
                           THEN {"POSIX_RENAME"} ELSE {})
                     \cup {"CHECK_FILE_HANDLE", "COPY_DATA"}
         IN  Invoke([s EXCEPT !.extensions = ext,
                              !.features = @ \cup feat,
                              !.ready = TRUE],
                    callback, Result(NoError, "response", response.id), r)

Parse(s, request, response, r) ==
    CASE request.responseParser = "init" ->
            initParser(s, response, request.callback, r, request.closure)
      [] request.responseParser = "parseStatus" ->
            parseStatus(s, response, request.callback, r)
      [] request.responseParser = "parseHandle" ->
            parseHandle(s, response, request.callback, r)
      [] request.responseParser = "parsePath" ->
            parsePath(s, response, request.callback, r)
      [] request.responseParser = "parseHash" ->
            parseHash(s, response, request.callback, r)
      [] request.responseParser = "parseAttribs" ->
            parseAttribs(s, response, request.callback, r)
      [] request.responseParser = "parseData" ->
            parseData(s, response, request.callback, r, request.closure)
      [] request.responseParser = "parseItems" ->
            parseItems(s, response, request.callback, r)

\* a _process that leaves the request in the table when it dispatches it
_process_keepsRequest(s, packet, r) ==
    LET s1 == [s EXCEPT !.bytesReceived = @ + PacketLength(packet.type)]
    IN  IF packet.id \notin DOMAIN s1.requests
        THEN Throw(s1, "Unknown response ID")
        ELSE LET request == s1.requests[packet.id]
                 s2 == [s1 EXCEPT !.fate[request.callback] = "answered"]
             IN  Parse(s2, request, packet, r)

\* a _process that deletes the request from the table after its parser has
\* returned
_process_removesAfter(s, packet, r) ==
    LET s1 == [s EXCEPT !.bytesReceived = @ + PacketLength(packet.type)]
    IN  IF packet.id \notin DOMAIN s1.requests
        THEN Throw(s1, "Unknown response ID")
        ELSE LET request == s1.requests[packet.id]
                 s2 == [s1 EXCEPT !.fate[request.callback] = "answered"]
                 t == Parse(s2, request, packet, r)
             IN  IF t.exc # "" THEN t
                 ELSE [t EXCEPT !.requests = Without(@, packet.id)]

_process(s, packet, r) ==
    LET s1 == [s EXCEPT !.bytesReceived = @ + PacketLength(packet.type)]
    IN  IF packet.id \notin DOMAIN s1.requests
        THEN Throw(s1, "Unknown response ID")
        ELSE LET request == s1.requests[packet.id]
                 s2 == [s1 EXCEPT !.requests = Without(@, packet.id),
                                  !.fate[request.callback] = "answered"]
             IN  Parse(s2, request, packet, r)

\* ------------------------------------------------------------ SftpClient
\* a _bind without the check of _bound
_bind_unguarded(s, channel) ==
    LET c == Len(s.kind) + 1
        t == _init([NewCall(s, "bind") EXCEPT !.bound = TRUE], channel, c)
    IN  IF t.exc # ""
        THEN [t EXCEPT !.fate[c] = "thrown"]
        ELSE [t EXCEPT !.listening = @ \cup {channel}]

_bind(s, channel) ==
    LET c == Len(s.kind) + 1
        s0 == NewCall(s, "bind")
    IN  IF s0.bound
        THEN [Throw(s0, "Already bound") EXCEPT !.fate[c] = "thrown"]
        ELSE LET t == _init([s0 EXCEPT !.bound = TRUE], channel, c)
             IN  IF t.exc # ""
                 THEN [t EXCEPT !.fate[c] = "thrown"]
                 ELSE [t EXCEPT !.listening = @ \cup {channel}]

\* a "message" listener that, having caught an exception of _process, ends
\* the session before it emits "error"
onMessage_endsOnError(s, packet, r) ==
    LET t == _process([s EXCEPT !.nMessages = @ + 1], packet, r)
    IN  IF t.exc # "" THEN Emit(end(Caught(t), r), "error") ELSE t

\* channel.on("message", ...)
onMessage(s, packet, r) ==
    LET t == _process([s EXCEPT !.nMessages = @ + 1], packet, r)
    IN  IF t.exc # "" THEN Emit(Caught(t), "error") ELSE t

\* channel.on("close", ...): listener tells whether "close" has a listener,
\* err whether the close carries an error
onClose(s, channel, err, listener, r) ==
    LET t == end([s EXCEPT !.closeSeen = @ \cup {channel}], r)
    IN  IF t.exc # "" THEN t
        ELSE LET t1 == [t EXCEPT !.bound = FALSE]
             IN  IF listener THEN Emit(t1, "close")
                 ELSE IF err THEN Emit(t1, "error")
                 ELSE t1

\* ------------------------------------------------------------ the server
StatusCodes == {SftpStatusCode.OK, SftpStatusCode.NO_SUCH_FILE}

ExtensionLists == {<<>>, <<[name |-> POSIX_RENAME, value |-> <<"1">>]>>}

\* the ids worth delivering in state s: every parked id, and one id that is
\* not parked (all of those are refused alike, as an unknown response id)
FrameIds(table) ==
    LET parked == {i \in IdValues : i \in DOMAIN table}
        others == IdValues \ parked
    IN  parked \cup (IF others = {} THEN {}
                     ELSE {CHOOSE i \in others : \A j \in others : i <= j})

ServerFrames(table) ==
    {Frame("VERSION", Null, v, e) : v \in {2, 3}, e \in ExtensionLists}
    \cup {Frame("STATUS", i, code, <<>>) : i \in FrameIds(table), code \in StatusCodes}
    \cup {Frame("HANDLE", i, 0, <<>>) : i \in FrameIds(table)}
    \cup {Frame("NAME", i, n, <<>>) : i \in FrameIds(table), n \in {1, 2}}

\* --------------------------------------------------------------- actions
\* the objects as their constructors leave them
Constructed ==
    /\ host = NoHost
    /\ id = Null
    /\ requests = EmptyTable
    /\ ready = FALSE
    /\ features = {}
    /\ extensions = EmptyTable
    /\ bytesSent = 0
    /\ bytesReceived = 0
    /\ bound = FALSE
    /\ ticks = <<>>
    /\ wire = <<>>
    /\ closeCalls = <<>>
    /\ listening = {}
    /\ closeSeen = {}
    /\ events = <<>>
    /\ kind = <<>>
    /\ given = <<>>
    /\ cbLog = <<>>
    /\ fate = <<>>
    /\ nMessages = 0
    /\ endCalled = FALSE
    /\ built = <<>>
    /\ endMark = NoMark

\* the application's callbacks make any of the calls of Reactions; the
\* channel delivers frames from the event loop only
Init ==
    /\ Constructed
    /\ reaction \in Reactions
    /\ inline = FALSE
    /\ advert = <<>>
    /\ input = NoInput
    /\ output = <<>>

\* SftpClient.bind(channel, callback)
Bind ==
    /\ Len(kind) < MaxCalls
    /\ \E channel \in Channels : Becomes(Caught(_bind(Cur, channel)))

\* an operation of the filesystem interface, called by the application
Submit ==
    /\ Len(kind) < MaxCalls
    /\ \E op \in Operations : Becomes(Caught(Operation(Cur, op)))

\* the channel delivers a frame
Message ==
    /\ nMessages < MaxMessages
    /\ \E channel \in listening \ closeSeen, packet \in ServerFrames(requests) :
          Becomes(onMessage(Cur, packet, reaction))

\* the channel reports its close
ChannelClose ==
    \E channel \in listening \ closeSeen, err \in BOOLEAN, listener \in BOOLEAN :
          Becomes(Caught(onClose(Cur, channel, err, listener, reaction)))

\* SftpClient.end(), called by the application (once; the calls after it
\* come from its callbacks and from the channel's close)
End ==
    /\ ~endCalled
    /\ Becomes(Caught(ClientEnd([Cur EXCEPT !.endCalled = TRUE], reaction)))

\* the event loop runs the next process.nextTick callback
Tick ==
    /\ ticks # <<>>
    /\ Becomes(Caught(Invoke([Cur EXCEPT !.ticks = Tail(@)], Head(ticks).callback,
                              Result(Head(ticks).error, "tick", Null), reaction)))

Next == Bind \/ Submit \/ Message \/ ChannelClose \/ End \/ Tick

Spec == Init /\ [][Next]_vars

\* ------------------------------------------------------- reading the run
Calls == DOMAIN kind

IsOperation(c) == kind[c] # "bind"

\* the frame API call c handed to a channel (a call sends at most one)
SentBy(c) == {i \in DOMAIN wire : wire[i].call = c}
WasSent(c) == SentBy(c) # {}
FrameOf(c) == wire[CHOOSE i \in SentBy(c) : TRUE]

\* the table keys under which call c's continuation is parked
KeysOf(c) == {k \in DOMAIN requests : requests[k].callback = c}

ConnectionLost == Result(createError(SftpStatusCode.CONNECTION_LOST), "teardown", Null)

\* ---------------------------------------------- a long-lived session
\* One session that lives long enough for the id counter to wrap: one
\* bind, then operations and the server's replies to parked requests.
InitWrap == Init /\ reaction = "none"

WrapBind ==
    /\ Len(kind) = 0
    /\ Becomes(Caught(_bind(Cur, 1)))

WrapSubmit ==
    /\ Len(kind) >= 1
    /\ Len(kind) < MaxWrapCalls
    /\ Becomes(Caught(Operation(Cur, "realpath")))

\* the server answers a parked request: the handshake with VERSION 3, an
\* operation with its NAME reply or with an error status.  The reply's id
\* is taken to be read back as the key the request was parked under, also
\* for a negative id.
WrapReply ==
    \E k \in DOMAIN requests :
       \E packet \in (IF k = Null
                      THEN {Frame("VERSION", Null, 3, <<>>)}
                      ELSE {Frame("NAME", k, 1, <<>>),
                            Frame("STATUS", k, SftpStatusCode.NO_SUCH_FILE, <<>>)}) :
          Becomes(onMessage(Cur, packet, reaction))

NextWrap == WrapBind \/ WrapSubmit \/ WrapReply

SpecWrap == InitWrap /\ [][NextWrap]_vars

\* ------------------------------- a channel that answers inside send()
\* The same session on a channel whose peer answers every request frame at
\* once: the reply reaches the "message" listener while send() is running.
InitSync ==
    /\ Constructed
    /\ reaction = "none"
    /\ inline = TRUE
    /\ advert = <<>>
    /\ input = NoInput
    /\ output = <<>>

SpecSync == InitSync /\ [][Next]_vars

\* ------------------------------------------- extensions and features
\* One session and a server that advertises a list of extension pairs: the
\* handshake, and the operations that go through an extension.
AdvertPairs ==
    {[name |-> n, value |-> <<v>>] : n \in {HARDLINK, POSIX_RENAME}, v \in {"1", "2"}}

AdvertLists == UNION {[1 .. n -> AdvertPairs] : n \in 0 .. MaxAdverts}

InitFeatures ==
    /\ Constructed
    /\ reaction = "none"
    /\ inline = FALSE
    /\ advert \in AdvertLists
    /\ input = NoInput
    /\ output = <<>>

FeatureOperations ==
    {"link", "rename", "renameOverwrite", "renameOther", "fcopy", "fcopyOther", "fhash"}

FeatBind ==
    /\ \A c \in DOMAIN kind : kind[c] # "bind"
    /\ Len(kind) < MaxCalls
    /\ Becomes(Caught(_bind(Cur, 1)))

FeatSubmit ==
    /\ Len(kind) < MaxCalls
    /\ \E op \in FeatureOperations : Becomes(Caught(ExtendedOperation(Cur, op)))

\* the server answers the handshake: VERSION 3 with its extension pairs, or
\* a frame of type INIT (which, like VERSION, carries no id)
FeatReply ==
    /\ Null \in DOMAIN requests
    /\ \E channel \in listening \ closeSeen,
          packet \in {Frame("VERSION", Null, 3, advert), Frame("INIT", Null, 3, <<>>)} :
          Becomes(onMessage(Cur, packet, reaction))

NextFeatures == FeatBind \/ FeatSubmit \/ FeatReply \/ Tick

SpecFeatures == InitFeatures /\ [][NextFeatures]_vars

\* ------------------------------------------------- reads and listings
\* One session after its bind: read and readdir on handles of its own, and
\* a server that answers each parked request with the replies the operation
\* can get, empty DATA frames among them.
InitRead ==
    /\ Constructed
    /\ reaction = "none"
    /\ inline = FALSE
    /\ advert = <<>>
    /\ input = NoInput
    /\ output = <<>>

ReadPositions == {0, 1}

\* valid arguments: a handle of this session, no buffer of the caller's
ValidArgs ==
    [callback : {"function"}, handle : {"this"}, handle2 : {"this"},
     buffer : {NullBuffer}, offset : {0}, length : 1 .. MaxLength,
     position : ReadPositions, flags : {"r"}]

ReadInputs(op) ==
    IF op = "read" THEN ValidArgs
    ELSE {a \in ValidArgs : a.length = 1 /\ a.position = 0}

ItemLists == {<<"a", "b">>, <<"b", "c">>}

\* what the server may answer to the request parked under key k: VERSION 3
\* to the handshake, a status or DATA to a read, a status, NAME or a frame
\* of another type to a readdir (a NAME frame holds at least as many
\* entries as it counts)
RepliesTo(parser, k) ==
    IF k = Null
    THEN {Frame("VERSION", Null, 3, <<>>)}
    ELSE {Frame("STATUS", k, code, <<>>) :
             code \in {SftpStatusCode.EOF, SftpStatusCode.NO_SUCH_FILE}}
         \cup (IF parser = "parseData"
               THEN {Frame("DATA", k, n, <<>>) : n \in 0 .. MaxLength}
               ELSE {Frame("NAME", k, n, l) : n \in 0 .. 2, l \in ItemLists}
                    \cup {Frame("HANDLE", k, 0, <<>>)})

ReadBind ==
    /\ Len(kind) = 0
    /\ Becomes(Caught(_bind(Cur, 1)))

ReadSubmit ==
    /\ Len(kind) >= 1
    /\ Len(kind) < 1 + MaxReads
    /\ \E op \in {"read", "readdir"} :
          \E a \in ReadInputs(op) : Becomes(Caught(CheckedOperation(Cur, op, a)))

ReadReply ==
    /\ nMessages < MaxReadReplies
    /\ \E k \in DOMAIN requests :
          \E packet \in RepliesTo(requests[k].responseParser, k) :
             Becomes(onMessage(Cur, packet, reaction))

NextRead == ReadBind \/ ReadSubmit \/ ReadReply

SpecRead == InitRead /\ [][NextRead]_vars

\* ------------------------------------------------ calls with bad arguments
\* One session, bound at some point or not at all, and an application that
\* calls the operations with arguments of which at most one is not what the
\* operation expects (two for a write that is too long: the length and a
\* buffer that holds it).
InitArgs ==
    /\ Constructed
    /\ reaction = "none"
    /\ inline = FALSE
    /\ advert = <<>>
    /\ input = NoInput
    /\ output = <<>>

BaseArgs ==
    [callback |-> "function", handle |-> "this", handle2 |-> "this",
     buffer |-> Buffer(MaxLength), offset |-> 0, length |-> 1, position |-> 0,
     flags |-> "r"]

ArgSets ==
    {BaseArgs, [BaseArgs EXCEPT !.callback = "undefined"]}
    \cup {[BaseArgs EXCEPT !.handle = h] : h \in {"other", "missing"}}
    \cup {[BaseArgs EXCEPT !.handle2 = "other"]}
    \cup {[BaseArgs EXCEPT !.buffer = b] : b \in {NullBuffer, NotBuffer}}
    \cup {[BaseArgs EXCEPT !.offset = 0 - 1]}
    \cup {[BaseArgs EXCEPT !.length = n] : n \in {0 - 1, MaxLength + 1}}
    \cup {[BaseArgs EXCEPT !.position = 0 - 1]}
    \cup {[BaseArgs EXCEPT !.flags = f] : f \in {"w+", "rw"}}
    \cup {[BaseArgs EXCEPT !.buffer = Buffer(MaxWriteBlockLength + 1),
                           !.length = MaxWriteBlockLength + 1]}

\* the arguments an operation takes
Takes(op) ==
    CASE op = "open" -> {"callback", "flags"}
      [] op \in {"close", "fstat", "fsetstat", "readdir"} -> {"callback", "handle"}
      [] op \in {"read", "write"} ->
            {"callback", "handle", "buffer", "offset", "length", "position"}
      [] op = "fcopy" -> {"callback", "handle", "handle2", "position"}
      [] op = "fhash" -> {"callback", "handle", "position"}

ArgsFor(op) ==
    {a \in ArgSets : \A f \in DOMAIN BaseArgs \ Takes(op) : a[f] = BaseArgs[f]}

ArgsBind ==
    /\ \A c \in DOMAIN kind : kind[c] # "bind"
    /\ Len(kind) < 1 + MaxArgCalls
    /\ Becomes(Caught(_bind(Cur, 1)))

ArgsSubmit ==
    /\ Len(kind) < 1 + MaxArgCalls
    /\ \E op \in CheckedOperations :
          \E a \in ArgsFor(op) : Becomes(Caught(CheckedOperation(Cur, op, a)))

NextArgs == ArgsBind \/ ArgsSubmit \/ Tick

SpecArgs == InitArgs /\ [][NextArgs]_vars

\* ------------------------------------------------- one session's life
\* One client whose first call is its bind: reads and links submitted while
\* the session is attached and after it (the server advertises no
\* extension, so that link is unsupported), the server's replies to the
\* parked requests, empty DATA frames among them, end() and the channel's
\* close in either order, and callbacks that do nothing, submit an
\* operation or call end().
InitTable ==
    /\ Constructed
    /\ reaction \in Reactions
    /\ inline = FALSE
    /\ advert = <<>>
    /\ input = NoInput
    /\ output = <<>>

TableBind ==
    /\ Len(kind) = 0
    /\ Becomes(Caught(_bind(Cur, 1)))

TableSubmit ==
    /\ Len(kind) >= 1
    /\ Len(kind) < MaxCalls
    /\ \/ \E a \in {x \in ReadInputs("read") : x.position = 0} :
             Becomes(Caught(CheckedOperation(Cur, "read", a)))
       \/ Becomes(Caught(ExtendedOperation(Cur, "link")))

\* the server answers a parked request
TableReply ==
    /\ nMessages < MaxMessages
    /\ \E k \in DOMAIN requests :
          \E packet \in RepliesTo(requests[k].responseParser, k) :
             Becomes(onMessage(Cur, packet, reaction))

\* SftpClient.end(), called by the application after the bind
TableEnd ==
    /\ Len(kind) >= 1
    /\ End

NextTable == TableBind \/ TableSubmit \/ TableReply \/ ChannelClose \/ TableEnd \/ Tick

SpecTable == InitTable /\ [][NextTable]_vars

\* ------------------------------------------------- the codec's functions
\* The functions of the codec (sftp-misc.ts) and createError, each applied
\* to one input: an open mode, as a number or as a string, goes through
\* toNumber, fromNumber and toNumber again; a status code through
\* createError; a stats record through SftpAttributes.from, write and the
\* reading constructor; an attribute block of a server through the reading
\* constructor.
FlagInputs ==
    {[fn |-> "flags", value |-> Number(n)] : n \in 0 .. SftpOpenFlags.ALL}
    \cup {[fn |-> "flags", value |-> String(s)] : s \in OpenModes \cup {"rw"}}

StatusInputs == {[fn |-> "status", value |-> Number(n)] : n \in (0 - 1) .. MaxStatus}

\* the values of the fields of a stats record: sizes up to the largest
\* 64-bit one, ids, modes and times (in seconds) up to the largest word
SizeValues == {0, 1, Word \div 2, LongWord \div 2 - 1}
IdPairs == {<<0, 1>>, <<Word - 1, 1>>}
ModeValues == {0, Word - 1}
TimePairs == {<<0, 1>>, <<Word - 1, Word \div 2>>}

\* a stats record has any of size, uid and gid, mode, atime and mtime
StatsRecords ==
    {s @@ u @@ m @@ t :
        s \in {NoField} \cup {Field("size", v) : v \in SizeValues},
        u \in {NoField} \cup {Field("uid", p[1]) @@ Field("gid", p[2]) : p \in IdPairs},
        m \in {NoField} \cup {Field("mode", v) : v \in ModeValues},
        t \in {NoField}
              \cup {Field("atime", p[1]) @@ Field("mtime", p[2]) : p \in TimePairs}}

\* the flags word that tells which fields a record has
FlagsOf(x) ==
    (IF "size" \in DOMAIN x THEN SftpAttributeFlags.SIZE ELSE 0)
    + (IF "uid" \in DOMAIN x THEN SftpAttributeFlags.UIDGID ELSE 0)
    + (IF "mode" \in DOMAIN x THEN SftpAttributeFlags.PERMISSIONS ELSE 0)
    + (IF "atime" \in DOMAIN x THEN SftpAttributeFlags.ACMODTIME ELSE 0)

AttrInputs == {[fn |-> "attrs", stats |-> x] : x \in StatsRecords}

\* an attribute block a server sends with the EXTENDED bit set: the fields
\* of attrs (ids below 2^31), pairs extended pairs of empty strings, and
\* after the block the words rest of the same packet
BlockInputs ==
    {[fn |-> "block", attrs |-> Field("flags", FlagsOf(x)) @@ x, pairs |-> c, rest |-> r] :
        x \in {y \in StatsRecords : "uid" \in DOMAIN y => y.uid < Word \div 2},
        c \in 0 .. MaxPairs,
        r \in {<<>>, <<0>>, <<1, 0, 0>>}}

\* the words of the block and of what follows it
BlockWords(in) ==
    LET F == SftpAttributeFlags
        a == in.attrs
    IN  writeInt32(a.flags + F.EXTENDED)
        \o (IF "size" \in DOMAIN a THEN writeInt64(a.size) ELSE <<>>)
        \o (IF "uid" \in DOMAIN a THEN writeInt32(a.uid) \o writeInt32(a.gid) ELSE <<>>)
        \o (IF "mode" \in DOMAIN a THEN writeInt32(a.mode) ELSE <<>>)
        \o (IF "atime" \in DOMAIN a
            THEN writeInt32(a.atime) \o writeInt32(a.mtime) ELSE <<>>)
        \o writeInt32(in.pairs)
        \o [i \in 1 .. 2 * in.pairs |-> 0]
        \o in.rest

CodecInputs == FlagInputs \cup StatusInputs \cup AttrInputs \cup BlockInputs

InitCodec ==
    /\ Constructed
    /\ reaction = "none"
    /\ inline = FALSE
    /\ advert = <<>>
    /\ input \in CodecInputs
    /\ output = <<>>

\* toNumber(flags), and toNumber(modes[0]) of the list fromNumber returned
FlagsToNumber ==
    /\ input.fn = "flags"
    /\ \/ /\ output = <<>>
          /\ output' = <<toNumber(input.value)>>
       \/ /\ Len(output) = 2
          /\ output[2].exc = ""
          /\ output' = Append(output, toNumber(String(output[2].value[1])))
    /\ UNCHANGED <<session, input>>

FlagsFromNumber ==
    /\ input.fn = "flags"
    /\ Len(output) = 1
    /\ output[1].exc = ""
    /\ output' = Append(output, fromNumber(output[1].value))
    /\ UNCHANGED <<session, input>>

StatusToError ==
    /\ input.fn = "status"
    /\ output = <<>>
    /\ output' = <<createError(input.value.number)>>
    /\ UNCHANGED <<session, input>>

AttrsFrom ==
    /\ input.fn = "attrs"
    /\ output = <<>>
    /\ output' = <<Returned(SftpAttributes_from(input.stats))>>
    /\ UNCHANGED <<session, input>>

AttrsWrite ==
    /\ input.fn = "attrs"
    /\ Len(output) = 1
    /\ output' = Append(output, SftpAttributes_write(output[1].value))
    /\ UNCHANGED <<session, input>>

\* the block is decoded by either copy of the constructor
AttrsRead ==
    /\ \E copy \in BOOLEAN :
          LET buf == IF input.fn = "attrs" THEN output[2].value ELSE BlockWords(input)
          IN  /\ \/ input.fn = "attrs" /\ Len(output) = 2 /\ output[2].exc = ""
                 \/ input.fn = "block" /\ output = <<>>
              /\ output' = Append(output, IF copy THEN SftpAttributesCopy(buf)
                                          ELSE SftpAttributes(buf))
    /\ UNCHANGED <<session, input>>

NextCodec ==
    FlagsToNumber \/ FlagsFromNumber \/ StatusToError \/ AttrsFrom \/ AttrsWrite \/ AttrsRead

SpecCodec == InitCodec /\ [][NextCodec]_vars

\* ---------------------------------------------------------------- claims

\* C1 - Correlation.  Whatever the order in which the responses arrive, a
\* request that is still parked has not been called back and sits in the
\* table under the id its frame carried; a request whose response has been
\* dispatched to its parser was called back exactly once, by the response
\* that carries the id under which the request was sent; and once no
\* request is parked the correlation table is empty.
C1_Correlation ==
    /\ \A c \in Calls :
          /\ fate[c] = "parked" =>
                /\ cbLog[c] = <<>>
                /\ WasSent(c)
                /\ KeysOf(c) = {FrameOf(c).id}
          /\ fate[c] = "answered" =>
                /\ Len(cbLog[c]) = 1
                /\ cbLog[c][1].src = "response"
                /\ cbLog[c][1].rid = FrameOf(c).id
                /\ KeysOf(c) = {}
    /\ (\A c \in Calls : fate[c] # "parked") => requests = EmptyTable

\* two operations in flight, the later one answered first
C1_Witness ==
    \E c1, c2 \in Calls :
       /\ IsOperation(c1) /\ IsOperation(c2) /\ c1 < c2
       /\ fate[c1] = "parked" /\ cbLog[c1] = <<>>
       /\ fate[c2] = "answered" /\ Len(cbLog[c2]) = 1

\* C2 - Teardown.  Every continuation that was parked when end() ran has
\* been invoked exactly once, with the CONNECTION_LOST error (ESHUTDOWN,
\* errno 46), and never again afterwards.
C2_Teardown ==
    \A c \in Calls :
       fate[c] \in {"failed", "dropped"} => cbLog[c] = <<ConnectionLost>>

\* C3 - The handshake continuation is failed like any other: once a
\* teardown has taken the parked handshake out of the table, the init
\* callback has been invoked with CONNECTION_LOST.
C3_HandshakeFailed ==
    \A c \in Calls :
       (~IsOperation(c) /\ fate[c] \in {"failed", "dropped"}) =>
          (cbLog[c] # <<>> /\ cbLog[c][1] = ConnectionLost)

\* C4 - After end() no submit succeeds: once end() has detached the
\* channel, no further frame is handed to any channel, the correlation
\* table is empty, and the calls made afterwards are completed with
\* NO_CONNECTION (ENOTCONN) only.
C4_NoSubmitAfterEnd ==
    endMark # NoMark =>
       /\ Len(wire) = endMark[2]
       /\ requests = EmptyTable
       /\ \A c \in Calls : c > endMark[1] =>
             \A i \in DOMAIN cbLog[c] : cbLog[c][i].err.code = "ENOTCONN"

\* C5 - Liveness through channel closure: an operation whose frame was
\* handed to a channel and that is no longer parked once that channel's
\* close has been processed has had its callback invoked, whatever the
\* server replied.
C5_ClosedImpliesCompleted ==
    \A c \in Calls :
       (/\ IsOperation(c) /\ WasSent(c)
        /\ FrameOf(c).channel \in closeSeen
        /\ fate[c] # "parked") => cbLog[c] # <<>>

\* C6 - Protocol errors are fatal: when a response of a type its parser does
\* not accept has been dispatched to a request, the channel the request went
\* out on has been closed and the request's callback has been completed.
C6_ProtocolErrorsFatal ==
    \A c \in Calls :
       fate[c] = "violated" =>
          /\ \E i \in DOMAIN closeCalls : closeCalls[i][1] = FrameOf(c).channel
          /\ cbLog[c] # <<>>

\* the error the status-code table gives for the error codes the server
\* sends here
MappedError(code) ==
    IF code = SftpStatusCode.NO_SUCH_FILE
    THEN [code |-> "ENOENT", errno |-> 34, nativeCode |-> code]
    ELSE [code |-> "UNKNOWN", errno |-> 0 - 1, nativeCode |-> code]

\* the STATUS frames with an error code that answer a parked request
StatusErrorFrames ==
    {p \in ServerFrames(requests) :
        p.type = "STATUS" /\ p.arg # SftpStatusCode.OK /\ p.id \in DOMAIN requests}

\* C7 - Operation errors are local.  When a STATUS response with a code
\* other than OK is dispatched (and the callback itself makes no call), the
\* request with that id alone is completed, once more, with the error mapped
\* from the code; the channel stays bound and is not closed, every other
\* continuation stays parked and is not invoked, nothing is emitted or
\* deferred, and the session can still submit.
C7_OperationErrorsLocal ==
    [][\A p \in StatusErrorFrames :
          (reaction = "none" /\ Becomes(onMessage(Cur, p, reaction))) =>
             LET c == requests[p.id].callback
             IN  /\ host' = host /\ host' # NoHost
                 /\ bound' = bound
                 /\ closeCalls' = closeCalls
                 /\ requests' = Without(requests, p.id)
                 /\ cbLog' = [cbLog EXCEPT
                                ![c] = Append(@, Result(MappedError(p.arg),
                                                        "response", p.id))]
                 /\ \A d \in Calls \ {c} : fate'[d] = fate[d]
                 /\ events' = events
                 /\ ticks' = ticks
                 /\ id' = id /\ wire' = wire]_vars

\* an operation completed with ENOENT while another one stays parked,
\* uninvoked, on a channel that is still bound and not closed
C7_Witness ==
    \E c1, c2 \in Calls :
       /\ c1 # c2 /\ IsOperation(c1) /\ IsOperation(c2)
       /\ WasSent(c1)
       /\ cbLog[c1] = <<Result(MappedError(SftpStatusCode.NO_SUCH_FILE),
                               "response", FrameOf(c1).id)>>
       /\ fate[c2] = "parked" /\ cbLog[c2] = <<>>
       /\ host # NoHost /\ closeCalls = <<>>

\* the id the k-th request built by getRequest carries: the first request
\* (the handshake, when bind comes first) finds the counter unset, the
\* request after it carries 1, and each later one the previous id plus one,
\* as a signed integer of the counter's width
BuiltId(k) == IF k = 1 THEN Null ELSE ToInt32(k - 1)

C9_IdsUnsignedNonZero ==
    /\ \A i \in DOMAIN wire :
          wire[i].type # "INIT" => wire[i].id \in 1 .. (Modulus - 1)
    /\ \A k \in DOMAIN requests :
          requests[k].responseParser # "init" => k \in 1 .. (Modulus - 1)

\* C10 - Uniqueness.  Every continuation that has been parked and neither
\* dispatched nor torn down is in the correlation table under exactly one
\* id, and every id of the table holds such a continuation: no submit has
\* overwritten or replaced a continuation that is still parked.
C10_Unique ==
    /\ \A c \in Calls : fate[c] = "parked" => Cardinality(KeysOf(c)) = 1
    /\ \A k \in DOMAIN requests : fate[requests[k].callback] = "parked"
    /\ \A c \in Calls :
          fate[c] = "thrown" /\ IsOperation(c) => ~WasSent(c) /\ KeysOf(c) = {}

\* the counter has wrapped onto the id of a request that is still parked,
\* and the submit that was given this id was refused
C10_Witness ==
    \E c \in Calls :
       /\ IsOperation(c) /\ fate[c] = "thrown"
       /\ c \in DOMAIN built
       /\ built[c] \in DOMAIN requests
       /\ requests[built[c]].callback < c
       /\ fate[requests[built[c]].callback] = "parked"

\* C11 - Duplicate assignment aborts the session.  A submit that is given
\* an id under which a continuation is still parked, and is refused for it,
\* leaves the session detached from its channel, with the channel closed
\* and no continuation parked.
C11_DuplicateAborts ==
    [][(/\ Len(kind') = Len(kind) + 1
        /\ Len(built') = Len(built) + 1
        /\ built'[Len(built')] \in DOMAIN requests
        /\ fate'[Len(kind')] = "thrown")
       => (/\ host' = NoHost
           /\ Len(closeCalls') > Len(closeCalls)
           /\ requests' = EmptyTable)]_vars

\* the frames a channel can deliver whose id has no parked continuation
UnknownIdFrames == {p \in ServerFrames(requests) : p.id \notin DOMAIN requests}

\* C13 - A frame with an unknown id aborts the session.  When a frame is
\* dispatched whose id has no parked continuation, the session is detached
\* from its channel afterwards and no continuation is left parked.
C13_UnknownIdAborts ==
    [][\A p \in UnknownIdFrames :
          (nMessages < MaxMessages /\ Becomes(onMessage(Cur, p, reaction)))
             => (host' = NoHost /\ requests' = EmptyTable)]_vars

\* C12 - Submit ordering.  A request whose reply the channel delivered
\* while send() was running was found in the correlation table: its callback
\* has been invoked, once, by that response.
C12_InlineReplyFindsContinuation ==
    \A i \in DOMAIN wire :
       wire[i].inline =>
          /\ fate[wire[i].call] = "answered"
          /\ Len(cbLog[wire[i].call]) = 1
          /\ cbLog[wire[i].call][1].src = "response"

\* what the init callback is invoked with when the handshake succeeded
HandshakeDone == Result(NoError, "response", Null)

\* the frames that answer a parked handshake: VERSION frames carry no id
VersionFrames ==
    {p \in ServerFrames(requests) : p.type = "VERSION" /\ Null \in DOMAIN requests}

\* C14 - Handshake success.  A bind that starts a handshake sends one frame,
\* INIT with version 3.  When VERSION with version 3 is dispatched to the
\* parked handshake, the session becomes ready, the init callback, not
\* invoked before, is invoked with no error, and 'ready' is emitted in the
\* same dispatch.  The init callback is never invoked twice; ready is true,
\* and 'ready' has been emitted, only after such a dispatch, and 'ready' is
\* emitted at most once.
C14_HandshakeSuccess ==
    /\ [](/\ \A c \in Calls :
                (~IsOperation(c) /\ fate[c] # "thrown") =>
                   /\ Cardinality(SentBy(c)) = 1
                   /\ FrameOf(c).type = "INIT"
                   /\ FrameOf(c).body = <<3>>
                   /\ Len(cbLog[c]) <= 1
          /\ \A i \in DOMAIN wire : wire[i].type = "INIT" => ~IsOperation(wire[i].call)
          /\ (ready \/ \E i \in DOMAIN events : events[i] = "ready") =>
                \E c \in Calls : ~IsOperation(c) /\ cbLog[c] = <<HandshakeDone>>
          /\ Cardinality({i \in DOMAIN events : events[i] = "ready"}) <= 1)
    /\ [][\A p \in VersionFrames :
             (p.arg = 3 /\ nMessages < MaxMessages
                        /\ Becomes(onMessage(Cur, p, reaction)))
                => LET c == requests[Null].callback
                   IN  /\ ready'
                       /\ cbLog[c] = <<>>
                       /\ cbLog'[c] = <<HandshakeDone>>
                       /\ events' = Append(events, "ready")]_vars

\* the handshake has succeeded
C14_Witness ==
    /\ ready
    /\ events = <<"ready">>
    /\ wire[1].type = "INIT" /\ wire[1].body = <<3>>
    /\ cbLog[1] = <<HandshakeDone>>

\* the frames of another type than VERSION that arrive while the handshake
\* is the only request outstanding
WrongTypeReplies ==
    {p \in ServerFrames(requests) : p.type # "VERSION" /\ DOMAIN requests = {Null}}

\* C15 - Handshake, wrong reply type.  When the reply to INIT is of another
\* type than VERSION, the channel is closed with code 3002, the init
\* callback receives an error whose nativeCode is BAD_MESSAGE, and the
\* session is not ready.
C15_WrongReplyType ==
    [][\A p \in WrongTypeReplies :
          (nMessages < MaxMessages /\ Becomes(onMessage(Cur, p, reaction)))
             => LET c == requests[Null].callback
                IN  /\ Len(closeCalls') > Len(closeCalls)
                    /\ closeCalls'[Len(closeCalls) + 1] = <<requests[Null].closure, 3002>>
                    /\ Len(cbLog'[c]) = 1
                    /\ cbLog'[c][1].err.nativeCode = SftpStatusCode.BAD_MESSAGE
                    /\ ~ready']_vars

\* the error createError gives for BAD_MESSAGE
BadMessage == [code |-> "EFAILURE", errno |-> 0 - 2, nativeCode |-> 5]

\* C16 - Handshake, wrong version.  When VERSION with a version other than
\* 3 is dispatched to the parked handshake, the channel is closed with code
\* 3002, the init callback is invoked, once, with a BAD_MESSAGE error, ready
\* stays false, no feature is set and 'ready' is not emitted.
C16_WrongVersion ==
    [][\A p \in VersionFrames :
          (p.arg # 3 /\ nMessages < MaxMessages
                     /\ Becomes(onMessage(Cur, p, reaction)))
             => LET c == requests[Null].callback
                IN  /\ Len(closeCalls') > Len(closeCalls)
                    /\ closeCalls'[Len(closeCalls) + 1] = <<requests[Null].closure, 3002>>
                    /\ cbLog[c] = <<>>
                    /\ cbLog'[c] = <<Result(BadMessage, "response", Null)>>
                    /\ ~ready'
                    /\ features' = {}
                    /\ \A i \in DOMAIN events' : events'[i] # "ready"]_vars

\* a handshake refused for its version
C16_Witness ==
    \E c \in Calls :
       /\ ~IsOperation(c)
       /\ cbLog[c] = <<Result(BadMessage, "response", Null)>>
       /\ \E i \in DOMAIN closeCalls : closeCalls[i] = <<FrameOf(c).channel, 3002>>
       /\ ~ready /\ features = {}

\* the pairs the server advertised under a name, and their values
PairsOf(name) == SelectSeq(advert, LAMBDA e : e.name = name)
AdvertisedValues(name) == {advert[i].value : i \in {j \in DOMAIN advert : advert[j].name = name}}

RECURSIVE JoinValues(_)
JoinValues(pairs) ==
    IF pairs = <<>> THEN <<>>
    ELSE IF Len(pairs) = 1 THEN pairs[1].value
    ELSE pairs[1].value \o <<",">> \o JoinValues(Tail(pairs))

\* C17 - Extension dedup.  After the handshake the extension map holds,
\* under every '@openssh.com' name the server advertised, the comma-joined
\* list of the values advertised under it in order of arrival, and contains
\* reports exactly the advertised values present in it.
C17_ExtensionDedup ==
    ready =>
       \A n \in {HARDLINK, POSIX_RENAME} :
          PairsOf(n) # <<>> =>
             /\ n \in DOMAIN extensions
             /\ extensions[n] = JoinValues(PairsOf(n))
             /\ \A v \in {"1", "2", "3"} :
                   contains(extensions[n], <<v>>) <=> (<<v>> \in AdvertisedValues(n))

\* C18 - Feature mapping.  After a successful handshake HARDLINK is in the
\* feature map iff "1" is among the values advertised for
\* hardlink@openssh.com, and POSIX_RENAME iff "1" is among those advertised
\* for posix-rename@openssh.com.
C18_FeatureMapping ==
    ready =>
       /\ ("LINK" \in features) <=> (<<"1">> \in AdvertisedValues(HARDLINK))
       /\ ("POSIX_RENAME" \in features) <=> (<<"1">> \in AdvertisedValues(POSIX_RENAME))

\* the error createError gives for OP_UNSUPPORTED
Unsupported == [code |-> "ENOSYS", errno |-> 35, nativeCode |-> 8]

\* C19 - Feature gating of link and rename.  link, and rename with
\* OVERWRITE, called while the HARDLINK respectively POSIX_RENAME feature
\* is absent, send nothing, leave bytes_sent, the id counter and the
\* correlation table unchanged and defer the callback with OP_UNSUPPORTED
\* (ENOSYS), which is what the callback then receives, once.  Called on a
\* bound session that has the feature, they send a frame of the extension
\* hardlink@openssh.com respectively posix-rename@openssh.com under the
\* next id and park the continuation under it.
C19_FeatureGating ==
    /\ [][\A op \in {"link", "renameOverwrite"} :
             (Len(kind) < MaxCalls /\ Becomes(Caught(ExtendedOperation(Cur, op))))
                => LET c == Len(kind) + 1
                       key == IF op = "link" THEN "LINK" ELSE "POSIX_RENAME"
                       ext == IF op = "link" THEN "hardlink@openssh.com"
                                             ELSE "posix-rename@openssh.com"
                   IN  IF key \notin features
                       THEN /\ wire' = wire
                            /\ bytesSent' = bytesSent
                            /\ id' = id
                            /\ requests' = requests
                            /\ ticks' = Append(ticks, [callback |-> c,
                                                       error |-> Unsupported])
                       ELSE host # NoHost =>
                               /\ Len(wire') = Len(wire) + 1
                               /\ wire'[Len(wire')].type = ext
                               /\ wire'[Len(wire')].id = id
                               /\ wire'[Len(wire')].channel = host
                               /\ DOMAIN requests' = DOMAIN requests \cup {id}
                               /\ requests'[id].callback = c]_vars
    /\ [](\A c \in Calls :
             kind[c] \in {"link", "renameOverwrite"} =>
                /\ Len(cbLog[c]) <= 1
                /\ \A i \in DOMAIN cbLog[c] :
                      cbLog[c][i].src = "tick" =>
                         cbLog[c][i] = Result(Unsupported, "tick", Null))

\* link was refused for the missing feature and has completed with ENOSYS;
\* rename with OVERWRITE went out as the posix-rename extension
C19_Witness ==
    \E c1, c2 \in Calls :
       /\ kind[c1] = "link" /\ ~WasSent(c1)
       /\ cbLog[c1] = <<Result(Unsupported, "tick", Null)>>
       /\ kind[c2] = "renameOverwrite" /\ WasSent(c2)
       /\ FrameOf(c2).type = "posix-rename@openssh.com"

\* C20 - Feature gating of fcopy and fhash.  On a bound session, fcopy
\* called while COPY_DATA is absent from the feature map, and fhash called
\* while CHECK_FILE_HANDLE is absent (the handshake has not completed),
\* send nothing and defer the callback with OP_UNSUPPORTED.
C20_CopyHashGating ==
    [][\A op \in {"fcopy", "fhash"} :
          (/\ host # NoHost
           /\ (IF op = "fcopy" THEN "COPY_DATA" ELSE "CHECK_FILE_HANDLE") \notin features
           /\ Len(kind) < MaxCalls
           /\ Becomes(Caught(ExtendedOperation(Cur, op))))
             => /\ wire' = wire
                /\ ticks' = Append(ticks, [callback |-> Len(kind) + 1,
                                           error |-> Unsupported])]_vars

\* C21 - Rename flag dispatch.  On a bound session rename with flags 0
\* sends a RENAME frame under the next id; rename with OVERWRITE, the
\* POSIX_RENAME feature being present, sends a frame of the extension
\* posix-rename@openssh.com; rename with any other flag value sends nothing,
\* leaves bytes_sent, the id counter and the correlation table unchanged,
\* does not invoke the callback inside the call and defers it with
\* OP_UNSUPPORTED (ENOSYS), which is all the callback ever receives.
C21_RenameDispatch ==
    /\ [][\A op \in {"rename", "renameOverwrite", "renameOther"} :
             (Len(kind) < MaxCalls /\ Becomes(Caught(ExtendedOperation(Cur, op))))
                => LET c == Len(kind) + 1
                   IN  CASE op = "rename" ->
                               host # NoHost =>
                                  /\ Len(wire') = Len(wire) + 1
                                  /\ wire'[Len(wire')].type = "RENAME"
                                  /\ wire'[Len(wire')].id = id
                                  /\ wire'[Len(wire')].call = c
                         [] op = "renameOverwrite" ->
                               (host # NoHost /\ "POSIX_RENAME" \in features) =>
                                  /\ Len(wire') = Len(wire) + 1
                                  /\ wire'[Len(wire')].type = "posix-rename@openssh.com"
                                  /\ wire'[Len(wire')].call = c
                         [] op = "renameOther" ->
                               /\ wire' = wire
                               /\ bytesSent' = bytesSent
                               /\ id' = id
                               /\ requests' = requests
                               /\ cbLog'[c] = <<>>
                               /\ Len(ticks') > Len(ticks)
                               /\ \A i \in (Len(ticks) + 1) .. Len(ticks') :
                                     ticks'[i] = [callback |-> c, error |-> Unsupported]]_vars
    /\ [](\A c \in Calls :
             kind[c] = "renameOther" =>
                /\ ~WasSent(c)
                /\ \A i \in DOMAIN cbLog[c] :
                      cbLog[c][i] = Result(Unsupported, "tick", Null))

\* a rename with flags 0 went out as RENAME, and a rename with another flag
\* value, which sent nothing, has completed with ENOSYS
C21_Witness ==
    \E c1, c2 \in Calls :
       /\ kind[c1] = "rename" /\ WasSent(c1) /\ FrameOf(c1).type = "RENAME"
       /\ kind[c2] = "renameOther" /\ ~WasSent(c2)
       /\ cbLog[c2] # <<>>
       /\ cbLog[c2][1] = Result(Unsupported, "tick", Null)
       /\ bytesSent = PacketLength("INIT") + PacketLength("RENAME")

\* the error createError gives for NO_CONNECTION
NotConnected == [code |-> "ENOTCONN", errno |-> 31, nativeCode |-> 6]

\* the calls that fail fast: an unsupported rename flag, an operation whose
\* feature is absent, and any operation that reaches execute without a
\* channel
FailsFast(op) ==
    \/ op = "renameOther"
    \/ op = "link" /\ "LINK" \notin features
    \/ op = "renameOverwrite" /\ "POSIX_RENAME" \notin features
    \/ host = NoHost /\ op # "fcopyOther"

\* C22 - Uniform asynchronous completion.  A call that fails fast (no
\* connection, unsupported operation, unsupported rename flag) returns
\* without having invoked any callback: it only queues its callback, with
\* ENOTCONN or ENOSYS, behind the callbacks already queued.  The callback of
\* an operation that sent nothing is only ever invoked from a tick.
C22_DeferredCompletion ==
    /\ [][\A op \in FeatureOperations :
             (/\ FailsFast(op)
              /\ Len(kind) < MaxCalls
              /\ Becomes(Caught(ExtendedOperation(Cur, op))))
                => LET c == Len(kind) + 1
                   IN  /\ cbLog' = Append(cbLog, <<>>)
                       /\ wire' = wire
                       /\ Len(ticks') > Len(ticks)
                       /\ SubSeq(ticks', 1, Len(ticks)) = ticks
                       /\ \A i \in (Len(ticks) + 1) .. Len(ticks') :
                             /\ ticks'[i].callback = c
                             /\ ticks'[i].error \in {NotConnected, Unsupported}]_vars
    /\ [](\A c \in Calls :
             (IsOperation(c) /\ ~WasSent(c)) =>
                \A i \in DOMAIN cbLog[c] : cbLog[c][i].src = "tick")

\* an operation issued without a connection and a link refused for its
\* missing feature have both been completed, each from a tick
C22_Witness ==
    \E c1, c2 \in Calls :
       /\ IsOperation(c1) /\ ~WasSent(c1)
       /\ cbLog[c1] = <<Result(NotConnected, "tick", Null)>>
       /\ kind[c2] = "link" /\ ~WasSent(c2)
       /\ cbLog[c2] = <<Result(Unsupported, "tick", Null)>>

\* the requests parked for a read
ParkedReads == {k \in DOMAIN requests : requests[k].responseParser = "parseData"}

\* C23 - Empty-read retry bound.  A zero-byte DATA reply to a READ makes
\* the engine send the READ again, at most 4 times for one read call: a
\* read call sends at most 5 READ frames, and the empty reply to the 5th
\* frame sends nothing and completes the caller with the EIO error, errno
\* 55.
C23_RetryBound ==
    /\ [](\A c \in Calls : kind[c] = "read" => Cardinality(SentBy(c)) <= 5)
    /\ [][\A k \in ParkedReads :
             (nMessages < MaxReadReplies
              /\ Becomes(onMessage(Cur, Frame("DATA", k, 0, <<>>), reaction)))
                => LET c == requests[k].callback
                   IN  IF Cardinality(SentBy(c)) < 5
                       THEN /\ Len(wire') = Len(wire) + 1
                            /\ wire'[Len(wire')].type = "READ"
                            /\ wire'[Len(wire')].call = c
                            /\ cbLog' = cbLog
                       ELSE /\ wire' = wire
                            /\ Len(cbLog'[c]) = 1
                            /\ cbLog'[c][1].err.code = "EIO"
                            /\ cbLog'[c][1].err.errno = 55]_vars

\* C24 - Empty-read retry is transparent.  Every READ frame of a read call,
\* the re-submitted ones included, carries the handle, the position and the
\* length the call asked for; and a DATA reply of 1 up to that many bytes,
\* to the first READ or to a retry, completes the caller with no error, the
\* data and its byte count.
C24_RetryTransparent ==
    /\ [](\A c \in Calls :
             kind[c] = "read" =>
                \A i \in SentBy(c) :
                   /\ wire[i].type = "READ"
                   /\ wire[i].body = <<given[c].handle, given[c].position,
                                       given[c].length>>)
    /\ [][\A k \in ParkedReads :
             \A n \in 1 .. given[requests[k].callback].length :
                (nMessages < MaxReadReplies
                 /\ Becomes(onMessage(Cur, Frame("DATA", k, n, <<>>), reaction)))
                   => cbLog'[requests[k].callback] =
                         <<ResultOf(NoError, "response", k, DataValue(n, n))>>]_vars

\* C25 - Read at end of file.  A STATUS reply with EOF to a READ, the first
\* one or a retry, completes the caller with no error, a zero-length buffer
\* and 0 bytes read, and a STATUS reply with another error code completes
\* it with the mapped error, no buffer and 0 bytes; either way the request
\* leaves the table, the callback is invoked this once and nothing is sent.
C25_ReadEof ==
    [][\A k \in ParkedReads :
          \A code \in {SftpStatusCode.EOF, SftpStatusCode.NO_SUCH_FILE} :
             (nMessages < MaxReadReplies
              /\ Becomes(onMessage(Cur, Frame("STATUS", k, code, <<>>), reaction)))
                => LET c == requests[k].callback
                   IN  /\ wire' = wire
                       /\ requests' = Without(requests, k)
                       /\ cbLog[c] = <<>>
                       /\ cbLog' =
                             [cbLog EXCEPT
                                ![c] = IF code = SftpStatusCode.EOF
                                       THEN <<ResultOf(NoError, "response", k,
                                                       DataValue(0, 0))>>
                                       ELSE <<ResultOf(MappedError(code), "response", k,
                                                       NullData)>>]]_vars

\* a read ended at the end of the file: one READ frame was sent, its reply
\* gave the caller a zero-length buffer and 0 bytes, and nothing is parked
C25_Witness ==
    \E c \in Calls :
       /\ kind[c] = "read" /\ Cardinality(SentBy(c)) = 1
       /\ cbLog[c] = <<ResultOf(NoError, "response", FrameOf(c).id, DataValue(0, 0))>>
       /\ ParkedReads = {}
       /\ Len(wire) = 2

\* the requests parked for a readdir
ParkedListings == {k \in DOMAIN requests : requests[k].responseParser = "parseItems"}

\* C26 - readdir end of enumeration.  A STATUS reply with EOF to a READDIR
\* completes the caller with no error and false; a NAME reply with count n
\* completes it with no error and the list of the first n entries of the
\* frame, n items; a STATUS reply with another error code completes it with
\* the mapped error.  The callback is invoked this once.
C26_Readdir ==
    [][\A k \in ParkedListings :
          \A p \in RepliesTo("parseItems", k) :
             (p.type # "HANDLE" /\ nMessages < MaxReadReplies
                                /\ Becomes(onMessage(Cur, p, reaction)))
                => LET c == requests[k].callback
                   IN  /\ cbLog[c] = <<>>
                       /\ Len(cbLog'[c]) = 1
                       /\ cbLog'[c][1].src = "response" /\ cbLog'[c][1].rid = k
                       /\ IF p.type = "NAME"
                          THEN /\ cbLog'[c][1].err = NoError
                               /\ Len(cbLog'[c][1].value.items) = p.arg
                               /\ \A i \in 1 .. p.arg :
                                     cbLog'[c][1].value.items[i] = p.exts[i]
                          ELSE IF p.arg = SftpStatusCode.EOF
                          THEN /\ cbLog'[c][1].err = NoError
                               /\ cbLog'[c][1].value = FalseValue
                          ELSE /\ cbLog'[c][1].err = MappedError(p.arg)
                               /\ cbLog'[c][1].value = NullValue]_vars

\* a readdir was told the end of the enumeration: its callback has
\* received false, with no error
C26_Witness ==
    \E c \in Calls :
       /\ kind[c] = "readdir" /\ WasSent(c)
       /\ cbLog[c] = <<ResultOf(NoError, "response", FrameOf(c).id, FalseValue)>>
       /\ ParkedListings = {}

\* the operations that take a handle
HandleOperations == CheckedOperations \ {"open"}

\* C27 - Handle ownership.  Every operation that takes a handle, given a
\* handle that another session issued, throws "Invalid handle" and does
\* nothing else: it sends nothing, leaves bytes_sent, the id counter and the
\* correlation table as they were, builds no request and defers nothing.
C27_HandleOwnership ==
    [][\A op \in HandleOperations :
          \A a \in ArgsFor(op) :
             (/\ a.handle = "other" \/ (op = "fcopy" /\ a.handle2 = "other")
              /\ Len(kind) < 1 + MaxArgCalls
              /\ Becomes(Caught(CheckedOperation(Cur, op, a))))
                => /\ CheckedOperation(Cur, op, a).exc = "Invalid handle"
                   /\ fate'[Len(kind')] = "thrown"
                   /\ wire' = wire
                   /\ bytesSent' = bytesSent
                   /\ id' = id
                   /\ built' = built
                   /\ requests' = requests
                   /\ ticks' = ticks]_vars

\* on a bound session a read with a handle of another session was refused:
\* the INIT frame is all that was sent and the handshake all that is parked
C27_Witness ==
    \E c \in Calls :
       /\ kind[c] = "read" /\ given[c].handle = "other"
       /\ fate[c] = "thrown" /\ ~WasSent(c) /\ KeysOf(c) = {}
       /\ host # NoHost
       /\ Len(wire) = 1 /\ wire[1].type = "INIT"
       /\ DOMAIN requests = {Null}
       /\ id = 1

\* the errors argument validation throws
ValidationErrors ==
    {"Callback must be a function", "Missing handle", "Invalid handle",
     "Invalid buffer", "Invalid offset", "Invalid length",
     "Offset or length is out of bands", "Invalid position",
     "Length exceeds maximum allowed data block length", "Invalid flags"}

\* C28 - Precondition violations leave the session untouched.  When an
\* operation throws on the validation of its arguments, no request has been
\* built: the id counter, the correlation table, bytes_sent and the frames
\* sent are the same as before the call.
C28_ValidationLeavesSession ==
    [][\A op \in CheckedOperations :
          \A a \in ArgsFor(op) :
             (/\ CheckedOperation(Cur, op, a).exc \in ValidationErrors
              /\ Len(kind) < 1 + MaxArgCalls
              /\ Becomes(Caught(CheckedOperation(Cur, op, a))))
                => /\ id' = id
                   /\ built' = built
                   /\ requests' = requests
                   /\ bytesSent' = bytesSent
                   /\ wire' = wire]_vars

\* C29 - bind refuses re-binding.  A bind called while the client is marked
\* bound throws "Already bound" and changes nothing: no frame is sent, the
\* session keeps its channel, the id counter and its parked continuations,
\* no listener is added, nothing is closed, emitted, deferred or called
\* back.
C29_NoRebind ==
    [][\A channel \in Channels :
          (bound /\ Len(kind) < MaxCalls /\ Becomes(Caught(_bind(Cur, channel))))
             => /\ _bind(Cur, channel).exc = "Already bound"
                /\ fate'[Len(kind')] = "thrown"
                /\ wire' = wire
                /\ host' = host
                /\ requests' = requests
                /\ id' = id
                /\ bytesSent' = bytesSent
                /\ listening' = listening
                /\ closeCalls' = closeCalls
                /\ bound' /\ ready' = ready
                /\ events' = events
                /\ ticks' = ticks
                /\ cbLog' = Append(cbLog, <<>>)
                /\ \A c \in Calls : fate'[c] = fate[c]]_vars

\* a second bind was refused while the first one's handshake, the only frame
\* sent, is still parked on the session's channel
C29_Witness ==
    \E c1, c2 \in Calls :
       /\ c1 < c2 /\ kind[c1] = "bind" /\ kind[c2] = "bind"
       /\ fate[c1] = "parked" /\ fate[c2] = "thrown"
       /\ host # NoHost /\ bound
       /\ Len(wire) = 1 /\ wire[1].type = "INIT" /\ wire[1].channel = host
       /\ DOMAIN requests = {Null} /\ requests[Null].callback = c1

\* C30 - Channel close.  When the channel the session is bound to reports
\* its close (and the callbacks make no call of their own), every parked
\* continuation is invoked with CONNECTION_LOST and the table is emptied;
\* then 'close' is emitted if it has a listener, 'error' if it has none and
\* the close carried an error, and nothing otherwise.
C30_ChannelClose ==
    [][\A channel \in listening \ closeSeen :
          \A err \in BOOLEAN, listener \in BOOLEAN :
             (/\ reaction = "none"
              /\ host = channel
              /\ Becomes(Caught(onClose(Cur, channel, err, listener, reaction))))
                => /\ \A k \in DOMAIN requests :
                         cbLog'[requests[k].callback] =
                            Append(cbLog[requests[k].callback], ConnectionLost)
                   /\ requests' = EmptyTable
                   /\ events' = IF listener THEN Append(events, "close")
                                ELSE IF err THEN Append(events, "error")
                                ELSE events]_vars

\* the packet type a response parser expects
ExpectedType(parser) ==
    CASE parser = "parseStatus" -> "STATUS"
      [] parser = "parseHandle" -> "HANDLE"
      [] parser = "parsePath" -> "NAME"
      [] OTHER -> "VERSION"

\* the frames whose dispatch raises an exception: the id is not parked, or
\* the frame is no error status and not of the type (for realpath: not of
\* the one entry) the operation's parser expects
FailsDispatch(p) ==
    \/ p.id \notin DOMAIN requests
    \/ /\ p.id # Null
       /\ ~(p.type = "STATUS" /\ p.arg # SftpStatusCode.OK)
       /\ \/ p.type # ExpectedType(requests[p.id].responseParser)
          \/ requests[p.id].responseParser = "parsePath" /\ p.arg # 1

\* the number of 'error' events emitted
Errors(log) == Cardinality({i \in DOMAIN log : log[i] = "error"})

\* C31 - Dispatch exceptions are trapped.  A frame whose dispatch raises an
\* exception (unknown response id, unexpected packet type, invalid
\* response) adds exactly one 'error' event and nothing else happens: no
\* callback is invoked, nothing is closed, the session keeps its channel and
\* every other parked continuation.  Any other frame, whether or not an
\* 'error' was emitted before it, emits no 'error' and is dispatched to the
\* continuation parked under its id, which leaves the table and is invoked
\* with the response.
C31_DispatchTrapped ==
    [][\A p \in ServerFrames(requests) :
          (nMessages' = nMessages + 1 /\ Becomes(onMessage(Cur, p, reaction)))
             => IF FailsDispatch(p)
                THEN /\ events' = Append(events, "error")
                     /\ host' = host
                     /\ closeCalls' = closeCalls
                     /\ cbLog' = cbLog
                     /\ ticks' = ticks
                     /\ requests' = Without(requests, p.id)
                ELSE LET c == requests[p.id].callback
                     IN  /\ Errors(events') = Errors(events)
                         /\ p.id \notin DOMAIN requests'
                         /\ Len(cbLog'[c]) = Len(cbLog[c]) + 1
                         /\ cbLog'[c][Len(cbLog'[c])].src = "response"
                         /\ cbLog'[c][Len(cbLog'[c])].rid = p.id]_vars

\* a frame with an unknown id was answered with 'error', and the VERSION
\* frame that arrived after it completed the handshake
C31_Witness ==
    /\ events = <<"error", "ready">>
    /\ nMessages = 2
    /\ cbLog[1] = <<HandshakeDone>>
    /\ host # NoHost /\ closeCalls = <<>>

\* the lists fromNumber has a case for
ModeLists ==
    {<<"r">>, <<"r+">>, <<"wx", "r+">>, <<"wx+", "r+">>, <<"a">>, <<"a+">>,
     <<"w">>, <<"w+">>, <<"wx">>, <<"wx+">>, <<"ax">>, <<"ax+">>}

\* C32 - Flag normalization is total.  For each of the 64 subsets of the
\* open-flag bits, fromNumber returns one of the tabulated lists, which is
\* not empty, and does not throw; the bitmask it has normalized the flags
\* to is one of 1, 2, 3, 10, 11, 14, 15, 26, 27, 42, 43, 46, 47.
C32_FlagsTotal ==
    (input.fn = "flags" /\ input.value.type = "number" /\ Len(output) >= 2) =>
       /\ output[1] = Returned(input.value.number)
       /\ output[2].exc = ""
       /\ output[2].value \in ModeLists
       /\ Len(output[2].value) >= 1
       /\ normalized(input.value.number) \in {1, 2, 3, 10, 11, 14, 15, 26, 27, 42, 43, 46, 47}

\* WRITE, CREATE, TRUNC and EXCL together came out as "wx"
C32_Witness ==
    /\ input = [fn |-> "flags", value |-> Number(2 + 8 + 16 + 32)]
    /\ Len(output) >= 2
    /\ output[2] = Returned(<<"wx">>)

\* C33 - Flag round trip.  For every mode string s that toNumber accepts,
\* toNumber(s) and fromNumber of it return, and toNumber of the first mode
\* fromNumber lists is toNumber(s) again.
C33_FlagsRoundTrip ==
    (input.fn = "flags" /\ input.value.type = "string"
                        /\ input.value.string \in OpenModes) =>
       /\ Len(output) >= 1 => output[1].exc = ""
       /\ Len(output) >= 2 => (output[2].exc = "" /\ Len(output[2].value) >= 1)
       /\ Len(output) >= 3 => output[3] = output[1]

\* "xa" went to 46, to "ax", and to 46 again
C33_Witness ==
    /\ input = [fn |-> "flags", value |-> String("xa")]
    /\ output = <<Returned(46), Returned(<<"ax">>), Returned(46)>>

\* C34 - Status mapping.  createError gives EOF(1) for EOF, ENOENT(34) for
\* NO_SUCH_FILE, EACCES(3) for PERMISSION_DENIED, ENOTCONN(31) for
\* NO_CONNECTION, ESHUTDOWN(46) for CONNECTION_LOST, ENOSYS(35) for
\* OP_UNSUPPORTED, EFAILURE(-2) for OK, FAILURE and BAD_MESSAGE, and
\* UNKNOWN(-1) for every other code, and records the native code unchanged.
C34_StatusMapping ==
    (input.fn = "status" /\ Len(output) = 1) =>
       LET n == input.value.number
           S == SftpStatusCode
           e == output[1]
       IN  /\ e.nativeCode = n
           /\ <<e.code, e.errno>> =
                 CASE n = S.EOF -> <<"EOF", 1>>
                   [] n = S.NO_SUCH_FILE -> <<"ENOENT", 34>>
                   [] n = S.PERMISSION_DENIED -> <<"EACCES", 3>>
                   [] n = S.NO_CONNECTION -> <<"ENOTCONN", 31>>
                   [] n = S.CONNECTION_LOST -> <<"ESHUTDOWN", 46>>
                   [] n = S.OP_UNSUPPORTED -> <<"ENOSYS", 35>>
                   [] n \in {S.OK, S.FAILURE, S.BAD_MESSAGE} -> <<"EFAILURE", 0 - 2>>
                   [] OTHER -> <<"UNKNOWN", 0 - 1>>

\* BAD_MESSAGE came out as EFAILURE(-2), with its native code
C34_Witness ==
    /\ input = [fn |-> "status", value |-> Number(SftpStatusCode.BAD_MESSAGE)]
    /\ output = <<[code |-> "EFAILURE", errno |-> 0 - 2, nativeCode |-> 5]>>

\* C35 - Attribute block round trip.  For every stats record x, from(x),
\* write() and the reading constructor return, and the attributes decoded
\* have the flags word that tells the fields of x and, for every field of
\* x, the value x has.  A block with the EXTENDED bit set decodes, without
\* an exception, to the flags without that bit and to the value it was
\* sent with for every basic field it has.
C35_AttrRoundTrip ==
    /\ input.fn = "attrs" =>
          /\ \A i \in DOMAIN output : output[i].exc = ""
          /\ Len(output) = 3 =>
                /\ output[3].value.flags = FlagsOf(input.stats)
                /\ \A f \in DOMAIN input.stats :
                      /\ f \in DOMAIN output[3].value
                      /\ output[3].value[f] = input.stats[f]
    /\ (input.fn = "block" /\ Len(output) = 1) =>
          /\ output[1].exc = ""
          /\ output[1].value.flags = input.attrs.flags
          /\ \A f \in DOMAIN input.attrs : output[1].value[f] = input.attrs[f]

\* C36 - At most once.  The callback passed to one operation call is
\* invoked at most once, whatever operations, responses and teardowns the
\* run is made of.
C36_AtMostOnce ==
    \A c \in Calls : IsOperation(c) => Len(cbLog[c]) <= 1

\* the frames that answer a parked operation
AnswerFrames == {p \in ServerFrames(requests) : p.id # Null /\ p.id \in DOMAIN requests}

\* C37 - Atomic removal on dispatch.  When a frame is dispatched to a parked
\* operation, whatever its callback does when invoked (nothing, another
\* operation, end()), the entry is gone from the table afterwards, the
\* callback has been invoked at most this once, by the response and not by
\* a teardown, and the call's continuation is parked under no id.  A call
\* whose response has been dispatched is never invoked again: a second
\* frame with its id finds no continuation.
C37_AtomicRemoval ==
    /\ [][\A p \in AnswerFrames :
             (nMessages' = nMessages + 1 /\ Becomes(onMessage(Cur, p, reaction)))
                => LET c == requests[p.id].callback
                   IN  /\ p.id \notin DOMAIN requests'
                       /\ KeysOf(c) = {p.id}
                       /\ \A k \in DOMAIN requests' : requests'[k].callback # c
                       /\ Len(cbLog'[c]) <= Len(cbLog[c]) + 1
                       /\ \A i \in DOMAIN cbLog'[c] :
                             i > Len(cbLog[c]) =>
                                (cbLog'[c][i].src = "response" /\ cbLog'[c][i].rid = p.id)]_vars
    /\ [](\A c \in Calls :
             (IsOperation(c) /\ fate[c] \in {"answered", "violated"}) =>
                /\ KeysOf(c) = {}
                /\ Len(cbLog[c]) <= 1)
    /\ [][\A c \in Calls :
             (IsOperation(c) /\ fate[c] \in {"answered", "violated"}) =>
                cbLog'[c] = cbLog[c]]_vars

\* a callback that calls end() was invoked by its response: the end() it
\* issued failed the other parked operation and left itself alone
C37_Witness ==
    /\ reaction = "end" /\ ~endCalled /\ closeSeen = {}
    /\ host = NoHost
    /\ \E c1, c2 \in Calls :
          /\ IsOperation(c1) /\ IsOperation(c2) /\ c1 # c2
          /\ fate[c1] = "answered"
          /\ Len(cbLog[c1]) = 1 /\ cbLog[c1][1].src = "response"
          /\ cbLog[c2] = <<ConnectionLost>>

\* the frames handed to a channel whose response has not been dispatched
\* and that no teardown has failed: the last frame of a call whose
\* continuation is parked
LiveFrames ==
    {i \in DOMAIN wire :
        /\ fate[wire[i].call] = "parked"
        /\ \A j \in SentBy(wire[i].call) : j <= i}

\* a reply that makes parseData read again: an empty DATA frame to a read
\* that has been retried at most four times
IsRetry(k, packet) ==
    /\ requests[k].responseParser = "parseData"
    /\ packet.type = "DATA" /\ packet.arg = 0
    /\ requests[k].closure.retries <= 4

\* C38 - Correlation table accounting.  In every reachable state the keys
\* of the table are the ids of the frames handed to a channel whose
\* response has not been dispatched and that no teardown has failed.  A
\* step that hands no frame to a channel adds no key, and a call that was
\* failed fast has sent no frame and is parked under no key.  A read retry
\* takes the answered id out of the table and puts exactly one new id in,
\* the id of the one frame it sends.
C38_TableAccounting ==
    /\ [](DOMAIN requests = {wire[i].id : i \in LiveFrames})
    /\ [](\A c \in Calls : fate[c] = "deferred" => (~WasSent(c) /\ KeysOf(c) = {}))
    /\ [][Len(wire') = Len(wire) => DOMAIN requests' \subseteq DOMAIN requests]_vars
    /\ [][\A k \in DOMAIN requests :
             \A packet \in RepliesTo(requests[k].responseParser, k) :
                (nMessages' = nMessages + 1 /\ IsRetry(k, packet)
                    /\ Becomes(onMessage(Cur, packet, reaction)))
                => /\ Len(wire') = Len(wire) + 1
                   /\ wire'[Len(wire')].call = requests[k].callback
                   /\ wire'[Len(wire')].id \notin DOMAIN requests
                   /\ DOMAIN requests' =
                         (DOMAIN requests \ {k}) \cup {wire'[Len(wire')].id}]_vars

\* a link failed fast as unsupported, or a read failed fast without a
\* connection, has run its callback, while a read sent after the bind
\* has been retried once and is parked under the id of its second frame
C38_Witness ==
    \E c \in Calls :
       /\ kind[c] = "read"
       /\ Cardinality(SentBy(c)) = 2
       /\ fate[c] = "parked"
       /\ DOMAIN requests = {Null, 2}
       /\ \E d \in Calls :
             /\ kind[d] \in {"link", "read"}
             /\ fate[d] = "deferred"
             /\ Len(cbLog[d]) = 1

\* C39 - A failed _init leaves the session detached.  When a bind throws
\* ("Already bound", "Already initialized"), no frame has been handed to a
\* channel and the session's channel reference is what it was before the
\* call; every frame of an operation goes to a channel to which an INIT
\* frame was handed before it.
C39_FailedInitDetached ==
    /\ [][\A channel \in Channels :
             (Len(kind) < MaxCalls /\ Becomes(Caught(_bind(Cur, channel)))
                 /\ fate'[Len(kind) + 1] = "thrown")
                => (host' = host /\ wire' = wire)]_vars
    /\ [](\A i \in DOMAIN wire :
             wire[i].type # "INIT" =>
                \E j \in 1 .. i - 1 :
                   wire[j].type = "INIT" /\ wire[j].channel = wire[i].channel)

\* the number of "close" events emitted so far
Closes(log) == Cardinality({i \in DOMAIN log : log[i] = "close"})

\* C40 - One termination, one 'close'.  In the life of one bound session
\* (the client's first call is the bind, and nothing emits "close" before
\* it), "close" is emitted at most once, whether SftpClient.end() or the
\* channel's close notification comes first and whatever comes after; and
\* when the session's channel is detached the client is not marked bound.
C40_OneClose ==
    /\ Closes(events) <= 1
    /\ host = NoHost /\ Len(kind) >= 1 => ~bound

====
